---------------------------- MODULE Spec2Model ----------------------------
(***************************************************************************)
(* Model of the Adhan prayer-time engine (PrayerTimesCalculator) and of    *)
(* the wall clock and host Date parser it reads.                           *)
(*                                                                         *)
(* Numbers.  A JavaScript Number is modelled as an integer counting        *)
(* ten-thousandths: 1 hour = 10000, 1 degree = 10000, sin/cos in           *)
(* -10000..10000.  The value NaN is the reserved integer NaN; every        *)
(* function that JavaScript would propagate a NaN through tests for it.    *)
(* All intermediate products are kept below 2^31.  With four decimals the  *)
(* solar time agrees with double arithmetic to 0.0001 h, the declination   *)
(* to 0.005 degrees and the solver results to about 0.1 h (the declination *)
(* is used as radians, which magnifies its error).                         *)
(***************************************************************************)
EXTENDS Integers, Sequences, FiniteSets

(***************************************************************************)
(* Number helpers                                                          *)
(***************************************************************************)
\* The Number value NaN (the result of arithmetic on an Invalid Date, on a
\* NaN coordinate or on a NaN timezone offset).
NaN == -1000000000

IsNaN(x) == x = NaN

Abs(x) == IF x < 0 THEN -x ELSE x

\* Units: h hours, d degrees, given in ten-thousandths.
Hours(n) == n * 10000
Deg(n) == n * 10000

\* Division rounding to nearest (ties away from zero), b > 0.
Div(a, b) == IF a >= 0 THEN (2 * a + b) \div (2 * b) ELSE -((2 * (-a) + b) \div (2 * b))

\* The JavaScript remainder a % m: the sign of the dividend.
JsMod(a, m) == IF a >= 0 THEN a % m ELSE -((-a) % m)

(***************************************************************************)
(* Math.sin, Math.cos, Math.acos, Math.asin, Math.atan, Math.atan2         *)
(* on degrees: a table of sin at whole degrees, interpolated linearly.     *)
(***************************************************************************)
SinTab ==
  << 0, 175, 349, 523, 698, 872, 1045, 1219, 1392, 1564, 1736, 1908, 2079, 2250,
     2419, 2588, 2756, 2924, 3090, 3256, 3420, 3584, 3746, 3907, 4067, 4226, 4384,
     4540, 4695, 4848, 5000, 5150, 5299, 5446, 5592, 5736, 5878, 6018, 6157, 6293,
     6428, 6561, 6691, 6820, 6947, 7071, 7193, 7314, 7431, 7547, 7660, 7771, 7880,
     7986, 8090, 8192, 8290, 8387, 8480, 8572, 8660, 8746, 8829, 8910, 8988, 9063,
     9135, 9205, 9272, 9336, 9397, 9455, 9511, 9563, 9613, 9659, 9703, 9744, 9781,
     9816, 9848, 9877, 9903, 9925, 9945, 9962, 9976, 9986, 9994, 9998, 10000 >>

\* sin of an angle in the first quadrant, 0 <= a <= Deg(90).
SinQ(a) ==
  LET i == a \div 10000
      f == a % 10000
  IN  IF i >= 90 THEN 10000
      ELSE SinTab[i + 1] + Div((SinTab[i + 2] - SinTab[i + 1]) * f, 10000)

\* Math.sin(a * Math.PI / 180)
Sin(a) ==
  LET r == a % Deg(360)
  IN  IF r <= Deg(90) THEN SinQ(r)
      ELSE IF r <= Deg(180) THEN SinQ(Deg(180) - r)
      ELSE IF r <= Deg(270) THEN -SinQ(r - Deg(180))
      ELSE -SinQ(Deg(360) - r)

\* Math.cos(a * Math.PI / 180)
Cos(a) == Sin(a + Deg(90))

\* The largest whole degree i in lo..hi with SinTab[i + 1] <= x (sin rises).
RECURSIVE SinIndex(_, _, _)
SinIndex(lo, hi, x) ==
  IF hi - lo <= 1 THEN lo
  ELSE LET mid == (lo + hi) \div 2
       IN  IF SinTab[mid + 1] <= x THEN SinIndex(mid, hi, x) ELSE SinIndex(lo, mid, x)

\* Math.asin(x) * 180 / Math.PI for 0 <= x <= 10000: the inverse of SinQ.
ASinQ(x) ==
  IF x >= 10000 THEN Deg(90)
  ELSE LET i == SinIndex(0, 90, x)
           lo == SinTab[i + 1]
           hi == SinTab[i + 2]
       IN  Deg(i) + Div((x - lo) * 10000, hi - lo)

\* Math.asin(x) * 180 / Math.PI, -10000 <= x <= 10000.
ASin(x) == IF x >= 0 THEN ASinQ(x) ELSE -ASinQ(-x)

\* Math.acos(x) * 180 / Math.PI, -10000 <= x <= 10000.
ACos(x) == Deg(90) - ASin(x)

\* tan at whole degrees 0..45, as sin / cos of the table.
TanTab(i) == Div(SinTab[i + 1] * 10000, SinTab[91 - i])

RECURSIVE TanIndex(_, _, _)
TanIndex(lo, hi, z) ==
  IF hi - lo <= 1 THEN lo
  ELSE LET mid == (lo + hi) \div 2
       IN  IF TanTab(mid) <= z THEN TanIndex(mid, hi, z) ELSE TanIndex(lo, mid, z)

\* Math.atan(z) * 180 / Math.PI for 0 <= z <= 10000 (an angle up to 45).
ATanOct(z) ==
  IF z >= 10000 THEN Deg(45)
  ELSE LET i == TanIndex(0, 45, z)
           lo == TanTab(i)
           hi == TanTab(i + 1)
       IN  Deg(i) + Div((z - lo) * 10000, hi - lo)

\* Math.atan(z) * 180 / Math.PI for z >= 0.
ATan(z) == IF z <= 10000 THEN ATanOct(z) ELSE Deg(90) - ATanOct(Div(100000000, z))

\* Math.atan2(y, x) * 180 / Math.PI for -10000 <= x, y <= 10000.
ATan2(y, x) ==
  LET ax == Abs(x)
      ay == Abs(y)
      a  == IF ax = 0 /\ ay = 0 THEN 0
            ELSE IF ax >= ay THEN ATanOct(Div(ay * 10000, ax))
            ELSE Deg(90) - ATanOct(Div(ax * 10000, ay))
      b  == IF x < 0 THEN Deg(180) - a ELSE a
  IN  IF y < 0 THEN -b ELSE b

(***************************************************************************)
(* Input domains                                                           *)
(***************************************************************************)
\* A Date argument: a valid date with its UTC fields (month = getUTCMonth()
\* + 1), an Invalid Date (every accessor returns NaN), or null (every
\* accessor call throws a TypeError).
UtcDate(y, m, d) == [kind |-> "date", year |-> y, month |-> m, day |-> d]
InvalidDate == [kind |-> "invalid", year |-> 0, month |-> 0, day |-> 0]
NullDate == [kind |-> "null", year |-> 0, month |-> 0, day |-> 0]

Dates ==
  { UtcDate(2024, 1, 15), UtcDate(2024, 3, 20), UtcDate(2024, 6, 21),
    UtcDate(2024, 9, 22), InvalidDate, NullDate }

\* 21.4225 N (Makkah), 45 N, 60 N, 74 N, 89 N, 33.8688 S, and NaN.
Latitudes == { 214225, Deg(45), Deg(60), Deg(74), Deg(89), -338688, NaN }

\* 39.8262 E (Makkah), 170.7020 W (Pago Pago), and NaN.
Longitudes == { 398262, -1707020, NaN }

\* IANA zone names known to the host, with their UTC offset in whole hours.
ZoneOffset == [ z \in { "Asia/Riyadh", "Pacific/Pago_Pago" } |->
                 IF z = "Asia/Riyadh" THEN 3 ELSE -11 ]
Timezones == DOMAIN ZoneOffset \cup { "Not/AZone" }

KnownMethods == { "MWL", "ISNA", "Egypt", "Makkah", "Karachi", "Tehran" }
Methods == KnownMethods \cup { "Foo" }
Madhabs == { "Hanafi", "Shafi" }

Prayers == { "fajr", "sunrise", "dhuhr", "asr", "maghrib", "isha" }

\* How the host's Date constructor treats the time-only string "h:mm AM"
\* (ECMAScript leaves unrecognised formats to the implementation):
\* "invalid" yields an Invalid Date, "timeToday" a time on the current day.
DateParsers == { "invalid", "timeToday" }

\* Bounds of the exploration.
MaxCalls == 2
MaxTicks == 2
\* The UTC hour of day at start, and the hours one Tick lets pass.
StartHour == 10
TickHours == 6

VARIABLES
  methodParams,  \* this.methodParams
  now,           \* the wall clock read by new Date(): UTC hour of day
  ticks,         \* how often the clock has advanced
  dateParse,     \* the host's Date parser (see DateParsers)
  args,          \* the arguments of calculatePrayerTimes
  calls,         \* completed calls of calculatePrayerTimes
  outcome,       \* "none", "returned" (line 38), "caught" (line 41), "raised"
  locals,        \* the locals of the last call's try block
  times,         \* the mapping the last call returned
  prevTimes      \* the mapping the call before it returned

\* The calculator and its host.
engineVars == << methodParams, now, ticks, dateParse, args, calls, outcome,
                 locals, times, prevTimes >>

VARIABLES
  op             \* the last formatting or parsing operation and its result

\* The formatting operations.
fmtVars == << op >>

VARIABLES
  cal            \* a calendar day, its Julian Day Number and the day before's

calVars == << cal >>

VARIABLES
  pc,              \* where the controller's init() or save handler stands
  currentLocation, \* this.currentLocation
  settings,        \* this.settings (method and madhab)
  locRun,          \* the locals of the running getLocation, and the device
  apiRun,          \* the locals of the running getAccuratePrayerTimes
  display          \* the six prayer-time elements of the page

appVars == << pc, currentLocation, settings, locRun, apiRun, display >>

VARIABLES
  prayerView,      \* the current-prayer and countdown elements of the page
  hijri            \* a day and the hijri-date element computed for it

VARIABLES
  isQiblaViewActive, \* this.isQiblaViewActive
  touchStartX,       \* this.touchStartX
  isVibrating,       \* this.isVibrating
  qiblaDirection,    \* this.qiblaDirection, degrees
  dom,               \* the elements of the Qibla view
  window,            \* the deviceorientation listener and the permission requests
  deactivated,       \* deactivateQiblaFinder ran, activateQiblaFinder not since
  lastEvent          \* the event handled last

\* The Qibla finder: the controller's fields and the page.
qiblaState == << isQiblaViewActive, touchStartX, isVibrating, qiblaDirection,
                 dom, window, deactivated >>

qiblaVars == << qiblaState, lastEvent >>

VARIABLES
  runs,              \* the invocations of calculateAndDisplayTimes on their way
  modal              \* the settings dialog as saved last, and what its search found

\* The save handler and the refreshes.
saveVars == << runs, modal >>

\* The rest of the page.
pageVars == << prayerView, hijri, qiblaVars, saveVars >>

vars == << engineVars, fmtVars, calVars, appVars, pageVars >>

(***************************************************************************)
(* PrayerTimesCalculator                                                   *)
(***************************************************************************)
\* constructor: the method table.
MethodTable ==
  [ m \in KnownMethods |->
      CASE m = "MWL"     -> [fajrAngle |-> Deg(18),  ishaAngle |-> Deg(17)]
        [] m = "ISNA"    -> [fajrAngle |-> Deg(15),  ishaAngle |-> Deg(15)]
        [] m = "Egypt"   -> [fajrAngle |-> 195000,   ishaAngle |-> 175000]
        [] m = "Makkah"  -> [fajrAngle |-> 185000,   ishaAngle |-> Deg(90)]
        [] m = "Karachi" -> [fajrAngle |-> Deg(18),  ishaAngle |-> Deg(18)]
        [] m = "Tehran"  -> [fajrAngle |-> 177000,   ishaAngle |-> Deg(14)] ]

\* getJulianDate reading getUTCMonth() without the + 1.
getJulianDateMonthFromZero(date) ==
  IF date.kind = "invalid" THEN NaN
  ELSE LET year  == date.year
           month == date.month - 1
           day   == date.day
           a == (14 - month) \div 12
           y == year + 4800 - a
           m == month + 12 * a - 3
       IN  day + ((153 * m + 2) \div 5) + 365 * y + (y \div 4) - (y \div 100)
             + (y \div 400) - 32045

\* getJulianDate: the Julian Day Number, an integer count of days (not in
\* ten-thousandths); NaN for an Invalid Date.
getJulianDate(date) ==
  IF date.kind = "invalid" THEN NaN
  ELSE LET year  == date.year
           month == date.month
           day   == date.day
           a == (14 - month) \div 12
           y == year + 4800 - a
           m == month + 12 * a - 3
       IN  day + ((153 * m + 2) \div 5) + 365 * y + (y \div 4) - (y \div 100)
             + (y \div 400) - 32045

\* getTimezoneOffset: hours (in ten-thousandths), or NaN.
getTimezoneOffset(timezone) ==
  IF timezone \notin DOMAIN ZoneOffset
  THEN 55000                          \* RangeError caught: return 5.5
  ELSE IF dateParse = "invalid"
  THEN NaN                            \* Invalid Date - utcTime
  ELSE LET localHour == (now + ZoneOffset[timezone]) % 24
       IN  Hours(localHour - now)     \* (localTime - utcTime) / 1000 / 60 / 60

\* Lines 63-69 of calculateSolarTime: the equation of time, in hours, for
\* an integer Julian Day Number.
EquationOfTime(julianDate) ==
  LET D   == julianDate - 2451545
      g   == JsMod(3575290 + 9856 * D + Div(28 * D, 10000), Deg(360))
      q   == JsMod(2804590 + 9856 * D + Div(4736 * D, 10000), Deg(360))
      L   == JsMod(q + Div(19150 * Sin(g), 10000) + Div(200 * Sin(2 * g), 10000),
                   Deg(360))
      e   == 234390 - Div(36 * D, 10000)
      RA  == Div(ATan2(Div(Cos(e) * Sin(L), 10000), Cos(L)), 15)
  IN  Div((Div(q, 15) - RA) * 4, 60)

\* calculateSolarTime
calculateSolarTime(julianDate, longitude, timezone) ==
  LET tz == getTimezoneOffset(timezone)
  IN  IF IsNaN(julianDate) \/ IsNaN(longitude) \/ IsNaN(tz) THEN NaN
      ELSE LET EqT            == EquationOfTime(julianDate)
               longitudeHour  == Div(longitude, 15)
               timezoneOffset == Div(tz, 60)
           IN  Hours(12) + EqT - longitudeHour + timezoneOffset

\* rate * A - rate * Tf / 10000 modulo 360 degrees, for a rate of
\* rateInt + rateFrac / 10000 ten-thousandths of a degree per day, A whole
\* days and Tf ten-thousandths of a day: the product 0.9856... * D of
\* calculateDeclination, reduced piecewise to stay below 2^31.
DegreesIn(rateInt, rateFrac, A, Tf) ==
  ( ((rateInt * (A \div 1000)) % 3600) * 1000
    + rateInt * (A % 1000)
    + Div(rateFrac * (A \div 1000), 10)
    + Div(rateFrac * (A % 1000), 10000)
    - Div(rateInt * Tf, 10000) ) % Deg(360)

\* calculateDeclination: degrees.  D = solarTime * 24 - 2451545.0 is
\* negative, D = -(A - Tf / 10000) with A whole days.
calculateDeclination(solarTime) ==
  LET T  == 24 * solarTime
      Tf == T % 10000
      A  == 2451545 - (T \div 10000)
      g  == -((DegreesIn(9856, 28, A, Tf) - 3575290) % Deg(360))
      q  == -((DegreesIn(9856, 4736, A, Tf) - 2804590) % Deg(360))
      L  == JsMod(q + Div(19150 * Sin(g), 10000) + Div(200 * Sin(2 * g), 10000),
                  Deg(360))
      e  == 234390 + Div(36 * A, 10000)
  IN  ASin(Div(Sin(e) * Sin(L), 10000))

\* v * 180 / Math.PI: the angle in degrees of v taken as radians.
RadToDeg(v) == 57 * v + Div(v * 2957, 10000) + Div(v * 8, 100000)

\* Math.cos(latitude * Math.PI / 180) * Math.cos(declination): the divisor
\* of every solver, scaled by 10^8.  The declination, a number of degrees,
\* is passed to Math.cos as it is, that is as radians.
Divisor(solarTime, latitude) ==
  Cos(latitude) * Cos(RadToDeg(calculateDeclination(solarTime)))

\* Math.abs(cosAngle) > 1 for cosAngle = num / den (num scaled by 10^4, den
\* by 10^8); a divisor of 0 with num /= 0 is JavaScript's Infinity.
NoSolution(num, den) == Abs(num) * 10000 > Abs(den)

\* cosAngle = num / den when |cosAngle| <= 1, scaled by 10^4.
CosAngle(num, den) ==
  IF num = 0 \/ Abs(den) < 1000 THEN 0
  ELSE LET c == Div(Abs(num) * 100000, Div(Abs(den), 1000))
           m == IF c > 10000 THEN 10000 ELSE c
       IN  IF (num < 0) = (den < 0) THEN m ELSE -m

\* calculateFajr with the fallback offset added instead of subtracted.
calculateFajrFallbackAdded(solarTime, latitude, fajrAngle) ==
  IF IsNaN(solarTime) \/ IsNaN(latitude) THEN NaN
  ELSE LET num == -Sin(fajrAngle)
           den == Divisor(solarTime, latitude)
       IN  IF NoSolution(num, den) THEN solarTime + 15000
           ELSE solarTime - Div(ACos(CosAngle(num, den)), 15)

\* calculateFajr
calculateFajr(solarTime, latitude, fajrAngle) ==
  IF IsNaN(solarTime) \/ IsNaN(latitude) THEN NaN
  ELSE LET num == -Sin(fajrAngle)
           den == Divisor(solarTime, latitude)
       IN  IF NoSolution(num, den) THEN solarTime - 15000
           ELSE solarTime - Div(ACos(CosAngle(num, den)), 15)

\* calculateSunrise for the sun's upper limb with refraction: the angle 0.8333
\* degrees below the horizon instead of 0.
calculateSunriseRefracted(solarTime, latitude) ==
  IF IsNaN(solarTime) \/ IsNaN(latitude) THEN NaN
  ELSE LET num == -Sin(8333)
           den == Divisor(solarTime, latitude)
       IN  IF NoSolution(num, den) THEN solarTime
           ELSE solarTime - Div(ACos(CosAngle(num, den)), 15)

\* calculateSunrise
calculateSunrise(solarTime, latitude) ==
  IF IsNaN(solarTime) \/ IsNaN(latitude) THEN NaN
  ELSE LET num == -Sin(0)
           den == Divisor(solarTime, latitude)
       IN  IF NoSolution(num, den) THEN solarTime
           ELSE solarTime - Div(ACos(CosAngle(num, den)), 15)

\* calculateDhuhr with a daylight-saving hour added.
calculateDhuhrPlusHour(solarTime) ==
  IF IsNaN(solarTime) THEN NaN ELSE solarTime + Hours(1)

\* calculateDhuhr
calculateDhuhr(solarTime) == solarTime

\* Math.abs(Math.tan(a * Math.PI / 180)), scaled by 10^4 and capped at 10^4.
TanAbs(a) ==
  IF Cos(a) = 0 THEN 100000000 ELSE Div(Abs(Sin(a)) * 10000, Abs(Cos(a)))

\* The numerator of calculateAsr's cosAngle.
AsrNumerator(solarTime, latitude, asrFactor) ==
  LET declination == calculateDeclination(solarTime)
      tanAngle    == TanAbs(latitude - RadToDeg(declination))
      shadowAngle == ATan(Div(100000000, Hours(asrFactor) + tanAngle))
  IN  Sin(shadowAngle) - Div(Sin(latitude) * Sin(RadToDeg(declination)), 10000)

\* calculateAsr
calculateAsr(solarTime, latitude, asrFactor) ==
  IF IsNaN(solarTime) \/ IsNaN(latitude) THEN NaN
  ELSE LET num == AsrNumerator(solarTime, latitude, asrFactor)
           den == Divisor(solarTime, latitude)
       IN  IF NoSolution(num, den) THEN solarTime + Hours(2)
           ELSE solarTime + Div(ACos(CosAngle(num, den)), 15)

\* calculateMaghrib
calculateMaghrib(solarTime, latitude) ==
  IF IsNaN(solarTime) \/ IsNaN(latitude) THEN NaN
  ELSE LET num == -Sin(0)
           den == Divisor(solarTime, latitude)
       IN  IF NoSolution(num, den) THEN solarTime
           ELSE solarTime + Div(ACos(CosAngle(num, den)), 15)

\* calculateIsha whose fallback is a fixed interval after Maghrib.
calculateIshaAfterMaghrib(solarTime, latitude, ishaAngle) ==
  IF IsNaN(solarTime) \/ IsNaN(latitude) THEN NaN
  ELSE LET num == -Sin(ishaAngle)
           den == Divisor(solarTime, latitude)
       IN  IF NoSolution(num, den) THEN calculateMaghrib(solarTime, latitude) + 15000
           ELSE solarTime + Div(ACos(CosAngle(num, den)), 15)

\* calculateIsha
calculateIsha(solarTime, latitude, ishaAngle) ==
  IF IsNaN(solarTime) \/ IsNaN(latitude) THEN NaN
  ELSE LET num == -Sin(ishaAngle)
           den == Divisor(solarTime, latitude)
       IN  IF NoSolution(num, den) THEN solarTime + 15000
           ELSE solarTime + Div(ACos(CosAngle(num, den)), 15)

\* Line 34: (times[key] % 24 + 24) % 24
Normalize(t) ==
  IF IsNaN(t) THEN NaN ELSE JsMod(JsMod(t, Hours(24)) + Hours(24), Hours(24))

\* OrDefault with another default angle (15 instead of 18).
OrDefaultFifteen(v, dflt) == IF v = 0 \/ IsNaN(v) THEN Deg(15) ELSE v

\* Lines 21-23: the parameters of the method and the madhab.  A missing
\* entry gives undefined, which || replaces by 18 like every falsy value.
OrDefault(v, dflt) == IF v = 0 \/ IsNaN(v) THEN dflt ELSE v

fajrAngleOf(method) ==
  OrDefault(IF method \in DOMAIN methodParams THEN methodParams[method].fajrAngle ELSE 0,
            Deg(18))

ishaAngleOf(method) ==
  OrDefault(IF method \in DOMAIN methodParams THEN methodParams[method].ishaAngle ELSE 0,
            Deg(18))

asrFactorOf(madhab) == IF madhab = "Hanafi" THEN 2 ELSE 1

\* Whether the try block (lines 17-38) throws: only getJulianDate can, on a
\* date without getUTCFullYear.
Throws(a) == a.date.kind = "null"

\* The mapping of the catch block, lines 41-48.
ZeroTimes == [ p \in Prayers |-> 0 ]

NoLocals ==
  [ julianDate |-> 0, localTime |-> 0, fajrAngle |-> 0, ishaAngle |-> 0,
    asrFactor |-> 0, raw |-> ZeroTimes, fajrNoSolution |-> FALSE,
    ishaNoSolution |-> FALSE ]

\* Lines 17-30: the locals of the try block when nothing throws.
TryBlock(a) ==
  LET julianDate == getJulianDate(a.date)
      localTime  == calculateSolarTime(julianDate, a.longitude, a.timezone)
      fajrAngle  == fajrAngleOf(a.method)
      ishaAngle  == ishaAngleOf(a.method)
      asrFactor  == asrFactorOf(a.madhab)
      finite     == ~IsNaN(localTime) /\ ~IsNaN(a.latitude)
      den        == IF finite THEN Divisor(localTime, a.latitude) ELSE 0
  IN  [ julianDate |-> julianDate,
        localTime  |-> localTime,
        fajrAngle  |-> fajrAngle,
        ishaAngle  |-> ishaAngle,
        asrFactor  |-> asrFactor,
        raw |-> [ fajr    |-> calculateFajr(localTime, a.latitude, fajrAngle),
                  sunrise |-> calculateSunrise(localTime, a.latitude),
                  dhuhr   |-> calculateDhuhr(localTime),
                  asr     |-> calculateAsr(localTime, a.latitude, asrFactor),
                  maghrib |-> calculateMaghrib(localTime, a.latitude),
                  isha    |-> calculateIsha(localTime, a.latitude, ishaAngle) ],
        \* whether calculateFajr and calculateIsha returned at lines 91, 129
        fajrNoSolution |-> finite /\ NoSolution(-Sin(fajrAngle), den),
        ishaNoSolution |-> finite /\ NoSolution(-Sin(ishaAngle), den) ]

\* A catch clause that throws the exception on.
CatchRethrows == "raised"

\* What the catch clause of line 39 does with an exception of the try block.
CatchOutcome == "caught"

\* Reads of the table that store the default angles of a method they miss.
methodParamsDefaultStored(table, method) ==
  IF method \in DOMAIN table THEN table
  ELSE [ m \in DOMAIN table \cup { method } |->
           IF m \in DOMAIN table THEN table[m]
           ELSE [fajrAngle |-> Deg(18), ishaAngle |-> Deg(18)] ]

\* Lines 21-22: this.methodParams after the two reads
\* this.methodParams[method]?.fajrAngle and ?.ishaAngle, the only uses of the
\* table in the class besides the constructor.
methodParamsAfterLookup(table, method) == table

(***************************************************************************)
(* Text.  A JavaScript string is a sequence of one-character strings.      *)
(***************************************************************************)
DigitChar == << "0", "1", "2", "3", "4", "5", "6", "7", "8", "9" >>

IsDigit(c) == \E i \in 1..10 : DigitChar[i] = c

DigitVal(c) == (CHOOSE i \in 1..10 : DigitChar[i] = c) - 1

\* Number.prototype.toString of a non-negative integer.
RECURSIVE DigitsOf(_)
DigitsOf(n) ==
  IF n < 10 THEN << DigitChar[n + 1] >>
  ELSE DigitsOf(n \div 10) \o << DigitChar[(n % 10) + 1] >>

NaNText == << "N", "a", "N" >>

\* The template literal ${n} of an integer (not in ten-thousandths) or NaN.
ToString(n) ==
  IF IsNaN(n) THEN NaNText
  ELSE IF n < 0 THEN << "-" >> \o DigitsOf(-n)
  ELSE DigitsOf(n)

\* String.prototype.padStart(2, '0')
padStart2(t) == IF Len(t) < 2 THEN << "0" >> \o t ELSE t

\* parseInt(t, 10) and Number(t) of a string of digits.
RECURSIVE parseInt(_)
parseInt(t) ==
  IF Len(t) = 0 THEN 0
  ELSE 10 * parseInt(SubSeq(t, 1, Len(t) - 1)) + DigitVal(t[Len(t)])

ErrorText == << "E", "r", "r", "o", "r" >>

\* /^(\d{1,2}):(\d{2})$/.test(t)
MatchesHM(t) ==
  /\ Len(t) \in { 4, 5 }
  /\ t[Len(t) - 2] = ":"
  /\ \A i \in (1..Len(t)) \ { Len(t) - 2 } : IsDigit(t[i])

\* The length of the "h:mm" part of a match of the 12-hour pattern, or 0.
ClockPrefix(t) ==
  IF \E k \in { 4, 5 } :
       /\ Len(t) \in { k + 2, k + 3 }
       /\ MatchesHM(SubSeq(t, 1, k))
       /\ Len(t) = k + 3 => t[k + 1] = " "
       /\ t[Len(t) - 1] \in { "A", "a", "P", "p" }
       /\ t[Len(t)] \in { "M", "m" }
  THEN CHOOSE k \in { 4, 5 } :
         Len(t) \in { k + 2, k + 3 } /\ MatchesHM(SubSeq(t, 1, k))
  ELSE 0

\* /^(\d{1,2}):(\d{2})\s?(AM|PM)$/i.test(t)
MatchesHMPeriod(t) == ClockPrefix(t) # 0

\* match[3].toUpperCase() of the 12-hour pattern
PeriodOf(t) == IF t[Len(t) - 1] \in { "P", "p" } THEN "PM" ELSE "AM"

(***************************************************************************)
(* formatTime, formatCountdown, convertTimeToDecimal                       *)
(***************************************************************************)
\* The Number values Infinity and -Infinity, and the value undefined.
Infinity == 2000000000
NegInfinity == -2000000000
Undefined == -1999999999

IsFinite(x) == x \notin { NaN, Infinity, NegInfinity, Undefined }

\* !decimalTime || isNaN(decimalTime), line 144
Falsy(x) == x = 0 \/ IsNaN(x) \/ x = Undefined

\* formatTime(decimalTime), decimalTime in ten-thousandths of an hour.
formatTime(decimalTime) ==
  IF Falsy(decimalTime) THEN ErrorText
  ELSE LET inf     == decimalTime \in { Infinity, NegInfinity }
           \* Math.floor(decimalTime)
           hours   == IF inf THEN decimalTime ELSE decimalTime \div 10000
           \* Math.floor((decimalTime - hours) * 60): Infinity - Infinity is NaN
           minutes == IF inf THEN NaN
                      ELSE ((decimalTime - Hours(hours)) * 60) \div 10000
           period  == IF hours >= 12 THEN << "P", "M" >> ELSE << "A", "M" >>
           \* hours % 12 || 12: Infinity % 12 is NaN
           rem     == IF inf THEN NaN ELSE JsMod(hours, 12)
           displayHours == IF rem = 0 \/ IsNaN(rem) THEN 12 ELSE rem
       IN  ToString(displayHours) \o << ":" >> \o padStart2(ToString(minutes))
             \o << " " >> \o period

\* convertTimeToDecimal without the 12 AM and 12 PM cases.
convertTimeToDecimalPlainPM(timeStr) ==
  IF MatchesHM(timeStr)
  THEN Hours(parseInt(SubSeq(timeStr, 1, Len(timeStr) - 3)))
         + Div(Hours(parseInt(SubSeq(timeStr, Len(timeStr) - 1, Len(timeStr)))), 60)
  ELSE IF MatchesHMPeriod(timeStr)
  THEN LET k == ClockPrefix(timeStr)
           h == parseInt(SubSeq(timeStr, 1, k - 3))
           minutes == parseInt(SubSeq(timeStr, k - 1, k))
           hours == IF PeriodOf(timeStr) = "PM" THEN h + 12 ELSE h
       IN  Hours(hours) + Div(Hours(minutes), 60)
  ELSE 0

\* AdhanApp.convertTimeToDecimal(timeStr) of a string (the empty string is
\* falsy): hours in ten-thousandths.
convertTimeToDecimal(timeStr) ==
  IF Len(timeStr) = 0 THEN 0
  ELSE IF MatchesHM(timeStr)
  THEN Hours(parseInt(SubSeq(timeStr, 1, Len(timeStr) - 3)))
         + Div(Hours(parseInt(SubSeq(timeStr, Len(timeStr) - 1, Len(timeStr)))), 60)
  ELSE IF MatchesHMPeriod(timeStr)
  THEN LET k == ClockPrefix(timeStr)
           h == parseInt(SubSeq(timeStr, 1, k - 3))
           minutes == parseInt(SubSeq(timeStr, k - 1, k))
           period == PeriodOf(timeStr)
           hours == IF period = "PM" /\ h # 12 THEN h + 12
                    ELSE IF period = "AM" /\ h = 12 THEN 0
                    ELSE h
       IN  Hours(hours) + Div(Hours(minutes), 60)
  ELSE 0

\* `${h} hours ${m} minutes`
CountdownText(h, m) ==
  ToString(h) \o << " ", "h", "o", "u", "r", "s", " " >> \o ToString(m)
    \o << " ", "m", "i", "n", "u", "t", "e", "s" >>

\* formatCountdown that rounds to the nearest minute.
formatCountdownRounded(hours) ==
  LET totalMinutes == Div(hours * 60, 10000)
  IN  CountdownText(totalMinutes \div 60, JsMod(totalMinutes, 60))

\* PrayerTimesCalculator.formatCountdown(hours), hours a finite number in
\* ten-thousandths.
formatCountdown(hours) ==
  LET totalMinutes == (hours * 60) \div 10000
      h == totalMinutes \div 60
      m == JsMod(totalMinutes, 60)
  IN  CountdownText(h, m)

\* AdhanApp.formatCountdown(hours)
AdhanApp_formatCountdown(hours) ==
  LET totalMinutes == (hours * 60) \div 10000
      h == totalMinutes \div 60
      m == JsMod(totalMinutes, 60)
  IN  CountdownText(h, m)

\* Inputs of the formatting operations: every hour of the day with fractions
\* at and next to the minute boundaries, and the special values.
Fractions == { 0, 1, 166, 167, 5000, 9833, 9834, 9999 }
MaxCountdownHours == 25
TimeInputs ==
  { Hours(h) + f : h \in 0..23, f \in Fractions }
    \cup { NaN, Infinity, NegInfinity, Undefined, -5000, Hours(24) + 5000 }
CountdownInputs == { Hours(h) + f : h \in 0..MaxCountdownHours, f \in Fractions }

NoOp == [ name |-> "none", arg |-> 0, text |-> << >>, value |-> 0 ]

\* The arguments of the calls that run beside the formatting operations.
FmtArgs ==
  [ date : { UtcDate(2024, 6, 21) }, latitude : { 214225 }, longitude : { 398262 },
    timezone : { "Asia/Riyadh" }, method : { "Makkah", "Foo" }, madhab : { "Shafi" } ]

(***************************************************************************)
(* The proleptic Gregorian calendar of Date (astronomical year numbering)  *)
(***************************************************************************)
IsLeapYear(y) == y % 4 = 0 /\ (y % 100 # 0 \/ y % 400 = 0)

DaysInMonth(y, m) ==
  IF m = 2 THEN (IF IsLeapYear(y) THEN 29 ELSE 28)
  ELSE IF m \in { 4, 6, 9, 11 } THEN 30 ELSE 31

\* The date 24 hours later (setUTCDate(getUTCDate() + 1)).
Tomorrow(d) ==
  IF d.day < DaysInMonth(d.year, d.month) THEN UtcDate(d.year, d.month, d.day + 1)
  ELSE IF d.month < 12 THEN UtcDate(d.year, d.month + 1, 1)
  ELSE UtcDate(d.year + 1, 1, 1)

\* Days before month ends, year ends and leap days; years before -4800, where
\* the y of getJulianDate is negative.
StartDates ==
  { UtcDate(2023, 12, 29), UtcDate(2024, 2, 27), UtcDate(2023, 2, 26),
    UtcDate(1900, 2, 26), UtcDate(2000, 2, 27), UtcDate(2024, 6, 28),
    UtcDate(2024, 7, 29), UtcDate(1582, 10, 3), UtcDate(0, 2, 27),
    UtcDate(-1, 12, 30), UtcDate(-4801, 12, 29), UtcDate(-4804, 2, 27),
    UtcDate(-5000, 2, 26), UtcDate(1999, 12, 30) }

MaxDays == 5

NoDay == [ date |-> UtcDate(2000, 1, 1), jd |-> 0, prevJd |-> 0,
           computed |-> FALSE, days |-> 0 ]

(***************************************************************************)
(* AdhanApp: location, remote timings, display                             *)
(***************************************************************************)
\* calculatePrayerTimes as a function of its arguments (and of the clock and
\* the Date parser it reads): the mapping returned at line 38 or line 41.
PrayerTimesOf(a) ==
  IF Throws(a) THEN ZeroTimes
  ELSE LET l == TryBlock(a) IN [ p \in Prayers |-> Normalize(l.raw[p]) ]

\* prayers, line 222: the order of the six prayers.
PrayerOrder == << "fajr", "sunrise", "dhuhr", "asr", "maghrib", "isha" >>

\* this.currentLocation = null
NoLocation ==
  [ latitude |-> NaN, longitude |-> NaN, timezone |-> "", city |-> "null" ]

\* setDefaultLocation, lines 131-136
DefaultLocation ==
  [ latitude |-> 214225, longitude |-> 398262, timezone |-> "Asia/Riyadh",
    city |-> "Makkah" ]

\* What the device can report: coordinates, and the host's resolved time
\* zone ("" when the host reports none).
Positions ==
  { [ latitude |-> -338688, longitude |-> -1707020, timezone |-> "Pacific/Pago_Pago" ],
    [ latitude |-> Deg(45), longitude |-> 398262, timezone |-> "" ] }

\* The city of the reverse geocoding; 'Your Location' when it fails.
Cities == { "Your Location", "Pago Pago" }

\* The settings of the constructor, or the ones loadSettings found.
SavedSettings ==
  { [ method |-> "Karachi", madhab |-> "Hanafi" ],
    [ method |-> "Makkah", madhab |-> "Shafi" ] }

\* The largest maxRetries argument explored (the default is 2).
MaxRetries == 2

\* new Date(): today.
Today == UtcDate(2024, 6, 21)

\* The string "hh:mm" of a remote response.
T24(h, m) == padStart2(ToString(h)) \o << ":" >> \o padStart2(ToString(m))

\* data.data.timings of a remote response: increasing times, or one entry
\* missing (the empty string), too early, or malformed.
BaseTimings ==
  [ p \in Prayers |->
      CASE p = "fajr"    -> T24(4, 12)
        [] p = "sunrise" -> T24(5, 38)
        [] p = "dhuhr"   -> T24(12, 22)
        [] p = "asr"     -> T24(15, 41)
        [] p = "maghrib" -> T24(19, 6)
        [] p = "isha"    -> T24(20, 36) ]

BadEntries == { << >>, T24(0, 1), << "1", "2", "h", "2", "2" >> }

Responses ==
  { BaseTimings }
    \cup { [ BaseTimings EXCEPT ![p] = b ] : p \in Prayers, b \in BadEntries }

\* isValidTimeFormat(timeStr)
isValidTimeFormat(timeStr) == MatchesHM(timeStr) \/ MatchesHMPeriod(timeStr)

\* Line 228-230: the entry is kept (timeStr is truthy, well formed and later
\* than prevTime).
Kept(timeStr, prevTime) ==
  /\ Len(timeStr) > 0
  /\ isValidTimeFormat(timeStr)
  /\ convertTimeToDecimal(timeStr) > prevTime

\* prevTime after the first i rounds of the loop of validateAndAdjustTimes.
RECURSIVE PrevTimeAfter(_, _)
PrevTimeAfter(timings, i) ==
  IF i = 0 THEN -Hours(1)
  ELSE LET before == PrevTimeAfter(timings, i - 1)
           timeStr == timings[PrayerOrder[i]]
       IN  IF Kept(timeStr, before) THEN convertTimeToDecimal(timeStr) ELSE before

\* calculateFallbackTime(prayer), given the mapping calculatePrayerTimes
\* returns (computed): formatTime(times[prayer] || 0).
calculateFallbackTime(computed, prayer) ==
  formatTime(IF IsNaN(computed[prayer]) THEN 0 ELSE computed[prayer])

\* validateAndAdjustTimes(timings), computed being what calculatePrayerTimes
\* returns for the current location and settings.
validateAndAdjustTimes(timings, computed) ==
  [ p \in Prayers |->
      LET i == CHOOSE k \in 1..6 : PrayerOrder[k] = p
      IN  IF Kept(timings[p], PrevTimeAfter(timings, i - 1)) THEN timings[p]
          ELSE calculateFallbackTime(computed, p) ]

\* formatApiTime(timeStr)
formatApiTime(timeStr) ==
  IF MatchesHM(timeStr)
  THEN LET h == parseInt(SubSeq(timeStr, 1, Len(timeStr) - 3))
           minutes == parseInt(SubSeq(timeStr, Len(timeStr) - 1, Len(timeStr)))
           period == IF h >= 12 THEN << "P", "M" >> ELSE << "A", "M" >>
           hours == IF h % 12 = 0 THEN 12 ELSE h % 12
       IN  IF minutes > 59 THEN ErrorText
           ELSE ToString(hours) \o << ":" >> \o padStart2(ToString(minutes))
                  \o << " " >> \o period
  ELSE IF MatchesHMPeriod(timeStr)
  THEN LET k == ClockPrefix(timeStr)
           hours == parseInt(SubSeq(timeStr, 1, k - 3))
           minutes == parseInt(SubSeq(timeStr, k - 1, k))
           period == IF PeriodOf(timeStr) = "PM" THEN << "P", "M" >> ELSE << "A", "M" >>
       IN  IF hours > 12 \/ minutes > 59 THEN ErrorText
           ELSE ToString(hours) \o << ":" >> \o padStart2(ToString(minutes))
                  \o << " " >> \o period
  ELSE ErrorText

\* Lines 160-167: the texts calculateAndDisplayTimes writes for timings.
RemoteDisplay(timings) ==
  [ p \in Prayers |->
      IF Len(timings[p]) > 0 THEN formatApiTime(timings[p]) ELSE ErrorText ]

\* Lines 316-323: the texts calculateLocalPrayerTimes writes for the times
\* computed.
LocalDisplay(computed) ==
  [ p \in Prayers |->
      IF computed[p] # 0 /\ ~IsNaN(computed[p]) THEN formatTime(computed[p]) ELSE ErrorText ]

\* The arguments of this.calculator.calculatePrayerTimes(new Date(), ...)
\* for the current location and settings, lines 249-256 and 308-311.
LocalArgs(location, s) ==
  [ date |-> Today, latitude |-> location.latitude,
    longitude |-> location.longitude, timezone |-> location.timezone,
    method |-> s.method, madhab |-> s.madhab ]

\* What that call returns.
LocalTimes(location, s) == PrayerTimesOf(LocalArgs(location, s))

\* The entries of timings that validateAndAdjustTimes replaces, each by a
\* call of calculateFallbackTime.
Replaced(timings) ==
  { p \in Prayers :
      LET i == CHOOSE k \in 1..6 : PrayerOrder[k] = p
      IN  ~Kept(timings[p], PrevTimeAfter(timings, i - 1)) }

\* The calculator after k calls of calculatePrayerTimes with the arguments a,
\* made at one moment.
CalculatorCalled(k, a) ==
  IF k = 0 THEN UNCHANGED engineVars
  ELSE /\ locals' = (IF Throws(a) THEN NoLocals ELSE TryBlock(a))
       /\ times' = (IF Throws(a) THEN ZeroTimes
                    ELSE [ p \in Prayers |-> Normalize(locals'.raw[p]) ])
       /\ outcome' = (IF Throws(a) THEN CatchOutcome ELSE "returned")
       /\ prevTimes' = (IF k = 1 THEN times ELSE times')
       /\ calls' = calls + k
       /\ args' = a
       /\ methodParams' = methodParamsAfterLookup(methodParams, a.method)
       /\ UNCHANGED << now, ticks, dateParse >>

NoDisplay == [ shown |-> "none", text |-> [ p \in Prayers |-> << >> ] ]

NoLocRun ==
  [ available |-> FALSE, maxRetries |-> 0, retries |-> 0, attempts |-> << >>,
    position |-> NoLocation ]

\* result is "none" while getAccuratePrayerTimes runs, then "null" or
\* "timings" with the timings received and the validated ones returned.
NoApiRun ==
  [ maxRetries |-> 0, retries |-> 0, attempts |-> << >>, result |-> "none",
    timings |-> [ p \in Prayers |-> << >> ],
    validated |-> [ p \in Prayers |-> << >> ] ]

\* What a request to the prayer-time service can end in: no response (a
\* network error or the 10 s timeout), or a response with a code, with or
\* without timings.
FetchOutcomes ==
  { [ kind |-> "network", code |-> 0, hasTimings |-> FALSE, timings |-> BaseTimings ],
    [ kind |-> "404+timings", code |-> 404, hasTimings |-> TRUE, timings |-> BaseTimings ],
    [ kind |-> "200", code |-> 200, hasTimings |-> FALSE, timings |-> BaseTimings ] }
    \cup { [ kind |-> "200+timings", code |-> 200, hasTimings |-> TRUE, timings |-> r ] :
             r \in Responses }

\* A response is used whenever it has timings.
UsableWhateverCode(response) == response.hasTimings

\* Line 207: data.code === 200 && data.data && data.data.timings
Usable(response) == response.code = 200 /\ response.hasTimings

\* The retries are exhausted one failure later.
RetriesExhaustedLate(retries, maxRetries) == retries > maxRetries + 1

\* Lines 115 and 214: retries > maxRetries
RetriesExhausted(retries, maxRetries) == retries > maxRetries

\* The controller before init().
AppNotStarted ==
  /\ pc = "constructed"
  /\ currentLocation = NoLocation
  /\ settings = [ method |-> "Karachi", madhab |-> "Hanafi" ]
  /\ locRun = NoLocRun
  /\ apiRun = NoApiRun
  /\ display = NoDisplay

(***************************************************************************)
(* AdhanApp: current and next prayer                                       *)
(***************************************************************************)
\* prayers[i]?.time || 0
TimeOrZero(t) == IF t = 0 \/ IsNaN(t) THEN 0 ELSE t

\* Lines 345-352: the first index from i on, in the order of the prayers
\* array, whose time is later than currentTime; 0 when the loop ends without
\* a break.
RECURSIVE FirstLater(_, _, _)
FirstLater(t, currentTime, i) ==
  IF i > 6 THEN 0
  ELSE IF currentTime < TimeOrZero(t[PrayerOrder[i]]) THEN i
  ELSE FirstLater(t, currentTime, i + 1)

\* updateCurrentAndNextPrayer(times) at the local time of day currentTime:
\* what it writes to the page, with the locals it computed.
updateCurrentAndNextPrayer(t, currentTime) ==
  LET i             == FirstLater(t, currentTime, 1)
      nextPrayer    == IF i = 0 THEN PrayerOrder[1] ELSE PrayerOrder[i]
      nextTime      == IF i = 0 THEN TimeOrZero(t[PrayerOrder[1]]) + Hours(24)
                       ELSE t[PrayerOrder[i]]
      currentPrayer == IF i > 1 THEN PrayerOrder[i - 1] ELSE PrayerOrder[6]
      difference    == nextTime - currentTime
      remaining     == IF difference < 0 THEN difference + Hours(24) ELSE difference
  IN  [ times |-> t, currentTime |-> currentTime, updated |-> TRUE,
        currentPrayer |-> currentPrayer,
        currentPrayerTime |-> formatTime(t[currentPrayer]),
        nextPrayer |-> nextPrayer, nextTime |-> nextTime,
        remaining |-> remaining,
        countdown |-> AdhanApp_formatCountdown(remaining) ]

\* The page before the first update.
NoPrayerView ==
  [ times |-> ZeroTimes, currentTime |-> 0, updated |-> FALSE,
    currentPrayer |-> "none", currentPrayerTime |-> << >>,
    nextPrayer |-> "none", nextTime |-> 0, remaining |-> 0,
    countdown |-> << >> ]

\* Prayer times in [0, 24) given to updateCurrentAndNextPrayer, in any order.
PrayerHours == { 0, Hours(5) + 5000, Hours(12), Hours(18) + 2500 }

\* now.getHours() + now.getMinutes() / 60 at 0:00, 3:00, 5:30, 12:00, 23:59.
CurrentTimes == { 0, Hours(3), Hours(5) + 5000, Hours(12), Hours(23) + 9833 }

(***************************************************************************)
(* AdhanApp: the tabular Hijri date                                        *)
(***************************************************************************)
\* The controller's getJulianDate(date), lines 449-457: the Julian Date of
\* the day's start, counted in half days (the value ends in .5); NaN for an
\* Invalid Date.
AdhanApp_getJulianDate(date) ==
  IF date.kind = "invalid" THEN NaN
  ELSE LET year  == date.year
           month == date.month
           day   == date.day
           a == (14 - month) \div 12
           y == year + 4800 - a
           m == month + 12 * a - 3
       IN  2 * (day + ((153 * m + 2) \div 5) + 365 * y + (y \div 4) - (y \div 100)
                  + (y \div 400)) - 64091

\* leapYearsIn30, line 410
leapYearsIn30 == { 2, 5, 7, 10, 13, 16, 18, 21, 24, 26, 29 }

\* A cycle without leap years.
daysInYearAllCommon(y) == 354

\* Lines 414-415: isLeap ? 355 : 354
daysInYear(y) == IF y \in leapYearsIn30 THEN 355 ELSE 354

\* Lines 411-421: the loop over the years of the cycle from year y on, with
\* daysLeft days left; yearInCycle is 0 when the loop ends without a break.
RECURSIVE YearSearch(_, _)
YearSearch(y, daysLeft) ==
  IF y > 30 THEN [ yearInCycle |-> 0, daysLeft |-> daysLeft ]
  ELSE IF daysLeft < daysInYear(y) THEN [ yearInCycle |-> y, daysLeft |-> daysLeft ]
  ELSE YearSearch(y + 1, daysLeft - daysInYear(y))

\* islamicMonths, lines 425-432
islamicMonths(currentYearIsLeap) ==
  << [ name |-> "Muharram", days |-> 30 ], [ name |-> "Safar", days |-> 29 ],
     [ name |-> "Rabi al-Awwal", days |-> 30 ], [ name |-> "Rabi al-Thani", days |-> 29 ],
     [ name |-> "Jumada al-Awwal", days |-> 30 ], [ name |-> "Jumada al-Thani", days |-> 29 ],
     [ name |-> "Rajab", days |-> 30 ], [ name |-> "Shaban", days |-> 29 ],
     [ name |-> "Ramadan", days |-> 30 ], [ name |-> "Shawwal", days |-> 29 ],
     [ name |-> "Dhu al-Qidah", days |-> 30 ],
     [ name |-> "Dhu al-Hijjah", days |-> IF currentYearIsLeap THEN 30 ELSE 29 ] >>

\* Lines 433-440: the loop over the months from index m on; found is false
\* when the loop ends without a break (monthIndex stays 0).
RECURSIVE MonthSearch(_, _, _)
MonthSearch(m, daysLeft, months) ==
  IF m >= 12 THEN [ monthIndex |-> 0, daysLeft |-> daysLeft, found |-> FALSE ]
  ELSE IF daysLeft < months[m + 1].days
  THEN [ monthIndex |-> m, daysLeft |-> daysLeft, found |-> TRUE ]
  ELSE MonthSearch(m + 1, daysLeft - months[m + 1].days, months)

\* 'Hijri Date Unavailable', line 445
HijriUnavailable ==
  [ kind |-> "unavailable", hijriDay |-> 0, monthIndex |-> 0, month |-> "",
    hijriYear |-> 0, yearInCycle |-> 0, yearFound |-> FALSE, monthFound |-> FALSE,
    monthDays |-> 0 ]

\* calculateLocalHijriDate(date): the parts of the string
\* `${hijriDay} ${month} ${hijriYear} AH`, with the locals yearInCycle (as
\* the year loop left it), whether each loop ended in its break, and the
\* length of the month found.
calculateLocalHijriDate(date) ==
  IF date.kind = "null" THEN HijriUnavailable       \* TypeError, caught
  ELSE IF date.kind = "invalid"
  THEN [ kind |-> "date", hijriDay |-> NaN, monthIndex |-> 0, month |-> "Muharram",
         hijriYear |-> NaN, yearInCycle |-> 30, yearFound |-> FALSE,
         monthFound |-> FALSE, monthDays |-> 30 ]
  ELSE LET jd               == AdhanApp_getJulianDate(date)
           islamicEpoch     == 3896879          \* 1948439.5
           daysSinceEpoch   == ((jd - islamicEpoch) \div 2) + 1
           thirtyYearCycles == daysSinceEpoch \div 10631
           remainingDaysAfterCycles == JsMod(daysSinceEpoch, 10631)
           years            == YearSearch(1, remainingDaysAfterCycles)
           yearInCycle      == IF years.yearInCycle = 0 THEN 30 ELSE years.yearInCycle
           hijriYear        == thirtyYearCycles * 30 + yearInCycle
           months           == islamicMonths(yearInCycle \in leapYearsIn30)
           found            == MonthSearch(0, years.daysLeft, months)
       IN  [ kind |-> "date", hijriDay |-> found.daysLeft + 1,
             monthIndex |-> found.monthIndex,
             month |-> months[found.monthIndex + 1].name,
             hijriYear |-> hijriYear, yearInCycle |-> yearInCycle,
             yearFound |-> years.yearInCycle # 0, monthFound |-> found.found,
             monthDays |-> months[found.monthIndex + 1].days ]

\* The dates given to calculateLocalHijriDate: days before the epoch (19 July
\* 622), the ends of 30-year cycles, of common and leap years of the cycle
\* and of months, the present, and a date object that is invalid or missing.
HijriStartDates ==
  { UtcDate(622, 7, 17), UtcDate(651, 8, 24), UtcDate(1961, 6, 12),
    UtcDate(1962, 6, 1), UtcDate(1963, 5, 21), UtcDate(1989, 7, 31),
    UtcDate(2024, 6, 19), UtcDate(2024, 7, 5), UtcDate(2026, 10, 31),
    UtcDate(2000, 2, 27), UtcDate(1582, 10, 3), UtcDate(3000, 12, 29),
    UtcDate(622, 1, 1), UtcDate(1990, 7, 21), InvalidDate, NullDate }

NoHijri == [ date |-> UtcDate(2000, 1, 1), result |-> HijriUnavailable,
             computed |-> FALSE, days |-> 0 ]

(***************************************************************************)
(* AdhanApp: the Qibla finder                                              *)
(***************************************************************************)
\* calculateQiblaDirection, lines 581-588, for the current location: degrees
\* from north in [0, 360).
calculateQiblaDirection(location) ==
  LET kaabaLat == 214225
      kaabaLon == 398262
      lonDiff  == kaabaLon - location.longitude
      y == Sin(lonDiff)
      \* Math.cos(userLat) * Math.tan(kaabaLat) - Math.sin(userLat) * Math.cos(lonDiff)
      x == Div(Cos(location.latitude) * Sin(kaabaLat), Cos(kaabaLat))
             - Div(Sin(location.latitude) * Cos(lonDiff), 10000)
  IN  JsMod(ATan2(y, x) + Deg(360), Deg(360))

\* The elements of the Qibla view as the page loads them: the class
\* 'qibla-active' of .swipe-container, style.display of #permission-btn,
\* style.transform (a rotation in degrees, or none) and style.display of
\* #compass-pointer, the class 'visible' of #qibla-found-message, the class
\* 'aligned' of .compass-dial, and what #qibla-direction-text shows.
PageLoaded ==
  [ qiblaActive |-> FALSE, permissionBtn |-> "", pointerTransform |-> << >>,
    pointerDisplay |-> "", messageVisible |-> FALSE, dialAligned |-> FALSE,
    directionText |-> "" ]

\* No listener registered; requestPermission tells whether
\* DeviceOrientationEvent.requestPermission is a function, pending counts the
\* permission requests not yet settled.
WindowLoaded == [ listener |-> FALSE, requestPermission |-> FALSE, pending |-> 0 ]

\* The largest number of permission requests in flight.
MaxPending == 2

\* requestOrientationPermission up to its await (lines 560-563), or as a
\* whole where no permission is needed (lines 573-576): the elements d and
\* the window w afterwards.
requestOrientationPermission(d, w) ==
  IF w.requestPermission
  THEN [ dom |-> d, window |-> [ w EXCEPT !.pending = @ + 1 ] ]
  ELSE [ dom |-> [ d EXCEPT !.permissionBtn = "none" ],
         window |-> [ w EXCEPT !.listener = TRUE ] ]

\* A further permission request can be modelled.
CanRequest == ~window.requestPermission \/ window.pending < MaxPending

\* activateQiblaFinder(): the click on #qiblaBtn (line 504).
activateQiblaFinder ==
  /\ CanRequest
  /\ isQiblaViewActive' = TRUE
  /\ LET after == requestOrientationPermission([ dom EXCEPT !.qiblaActive = TRUE ], window)
     IN  dom' = after.dom /\ window' = after.window
  /\ deactivated' = FALSE
  /\ UNCHANGED << touchStartX, isVibrating, qiblaDirection >>

\* deactivateQiblaFinder(): the click on #backBtn (line 505).
deactivateQiblaFinder ==
  /\ isQiblaViewActive' = FALSE
  /\ dom' = [ dom EXCEPT !.qiblaActive = FALSE, !.messageVisible = FALSE,
                         !.dialAligned = FALSE ]
  /\ window' = [ window EXCEPT !.listener = FALSE ]
  /\ deactivated' = TRUE
  /\ UNCHANGED << touchStartX, isVibrating, qiblaDirection >>

\* Any horizontal movement counts as a swipe.
IsSwipeAnyMove(swipeDistance) == swipeDistance # 0

\* Line 537: not (Math.abs(swipeDistance) < 50)
IsSwipe(swipeDistance) == ~(Abs(swipeDistance) < 50)

\* clientX of a touch.
TouchXs == { 0, 49, 50, 120 }

\* A deviceorientation event: alpha (null where hasAlpha is false) and
\* webkitCompassHeading (undefined where hasHeading is false), in degrees.
OrientationEvents ==
  { [ hasAlpha |-> FALSE, alpha |-> 0, hasHeading |-> FALSE, webkitCompassHeading |-> 0 ],
    [ hasAlpha |-> TRUE, alpha |-> 0, hasHeading |-> FALSE, webkitCompassHeading |-> 0 ],
    [ hasAlpha |-> TRUE, alpha |-> Deg(180), hasHeading |-> FALSE, webkitCompassHeading |-> 0 ],
    [ hasAlpha |-> FALSE, alpha |-> 0, hasHeading |-> TRUE, webkitCompassHeading |-> 2531066 ],
    [ hasAlpha |-> TRUE, alpha |-> Deg(90), hasHeading |-> TRUE, webkitCompassHeading |-> 0 ] }

\* showCompassError(): the elements and the window afterwards.
showCompassError(d, w) ==
  [ dom |-> [ d EXCEPT !.directionText = "Compass not available on this device.",
                       !.pointerDisplay = "none" ],
    window |-> [ w EXCEPT !.listener = FALSE ] ]

\* The event handled last: its type and, for a touchend, touchStartX -
\* touchEndX.
Event(type, swipeDistance) == [ type |-> type, swipeDistance |-> swipeDistance ]
NoEvent == Event("none", 0)

\* The controller as the constructor leaves it, the page as loaded.
QiblaIdle ==
  /\ isQiblaViewActive = FALSE
  /\ touchStartX = 0
  /\ isVibrating = FALSE
  /\ qiblaDirection = 0
  /\ dom = PageLoaded
  /\ window = WindowLoaded
  /\ deactivated = FALSE
  /\ lastEvent = NoEvent

(***************************************************************************)
(* AdhanApp: saving the settings, and the refreshes                        *)
(***************************************************************************)
\* maxRetries = 2, the default of getLocation and getAccuratePrayerTimes.
DefaultRetries == 2

\* The clicks on #saveBtn and the firings of the 60 s timer explored.
MaxSaves == 1
MaxTimerRuns == 1

\* Line 204: what the URL of a request carries of this.currentLocation and
\* this.settings.
RequestFor(location, s) ==
  [ latitude |-> location.latitude, longitude |-> location.longitude,
    timezone |-> location.timezone, method |-> s.method, madhab |-> s.madhab ]

NoRequest == RequestFor(NoLocation, [ method |-> "", madhab |-> "" ])

\* data.data.timings of the service for a request: well-formed increasing
\* times, fajr and isha by the method, asr by the school, dhuhr by the
\* longitude.
ServiceTimings(request) ==
  [ BaseTimings EXCEPT
      !.fajr  = IF request.method = "Makkah" THEN T24(4, 9) ELSE T24(4, 12),
      !.isha  = IF request.method = "Makkah" THEN T24(20, 36) ELSE T24(20, 17),
      !.asr   = IF request.madhab = "Hanafi" THEN T24(16, 48) ELSE T24(15, 41),
      !.dhuhr = IF request.longitude = DefaultLocation.longitude THEN T24(12, 22)
                ELSE IF request.longitude < 0 THEN T24(12, 24)
                ELSE T24(12, 6) ]

\* Lines 169-176: apiTimes, convertTimeToDecimal(timings[p]) || 0.
apiTimes(timings) ==
  [ p \in Prayers |-> TimeOrZero(convertTimeToDecimal(timings[p])) ]

\* now.getHours() + now.getMinutes() / 60 (line 334) on a host whose clock
\* shows the hour of the calculator's clock.
LocalTimeOfDay == Hours(now)

\* An invocation of calculateAndDisplayTimes: where it stands, the retries
\* of its getAccuratePrayerTimes, the request in flight, and how many
\* invocations this caller has started.
NoRun == [ pc |-> "idle", retries |-> 0, request |-> NoRequest, started |-> 0 ]

\* The invocations of the save handler and of the timer.
NoRuns == [ handler |-> NoRun, timer |-> NoRun ]

\* The city typed and found by the search of saveSettingsFromModal.
CityFound ==
  [ latitude |-> 410082, longitude |-> 289784, city |-> "Istanbul" ]

\* The dialog before a save: found is the location the search of the last
\* save set, NoLocation when it set none.
NoModal == [ saves |-> 0, locationInput |-> "", found |-> NoLocation ]

SaveIdle == runs = NoRuns /\ modal = NoModal

\* The page outside the prayer-time elements, untouched.
PageIdle == prayerView = NoPrayerView /\ hijri = NoHijri /\ QiblaIdle /\ SaveIdle

(***************************************************************************)
(* Actions                                                                 *)
(***************************************************************************)
Init ==
  /\ methodParams = MethodTable
  /\ now = StartHour
  /\ ticks = 0
  /\ dateParse \in DateParsers
  /\ args \in [ date : Dates, latitude : Latitudes, longitude : Longitudes,
                timezone : Timezones, method : Methods, madhab : Madhabs ]
  /\ calls = 0
  /\ outcome = "none"
  /\ locals = NoLocals
  /\ times = ZeroTimes
  /\ prevTimes = ZeroTimes
  /\ op = NoOp
  /\ cal = NoDay
  /\ AppNotStarted
  /\ PageIdle

\* calculatePrayerTimes(date, latitude, longitude, timezone, method, madhab)
calculatePrayerTimes ==
  /\ calls < MaxCalls
  /\ calls' = calls + 1
  /\ prevTimes' = times
  /\ IF Throws(args)
     THEN /\ outcome' = CatchOutcome
          /\ locals' = NoLocals
          /\ times' = ZeroTimes
     ELSE LET l == TryBlock(args)
          IN  /\ outcome' = "returned"
              /\ locals' = l
              /\ times' = [ p \in Prayers |-> Normalize(l.raw[p]) ]
  /\ methodParams' = methodParamsAfterLookup(methodParams, args.method)
  /\ UNCHANGED << now, ticks, dateParse, args >>
  /\ UNCHANGED << fmtVars, calVars, appVars, pageVars >>

\* Time passes between two calls.
Tick ==
  /\ ticks < MaxTicks
  /\ ticks' = ticks + 1
  /\ now' = (now + TickHours) % 24
  /\ UNCHANGED << methodParams, dateParse, args, calls, outcome, locals, times,
                  prevTimes >>
  /\ UNCHANGED << fmtVars, calVars, appVars, pageVars >>

Next == calculatePrayerTimes \/ Tick

Spec == Init /\ [][Next]_vars

\* The calculator's operations on fixed coordinates, with the formatting and
\* parsing operations; a behaviour formats one value.
InitFmt ==
  /\ methodParams = MethodTable
  /\ now = StartHour
  /\ ticks = 0
  /\ dateParse \in DateParsers
  /\ args \in FmtArgs
  /\ calls = 0
  /\ outcome = "none"
  /\ locals = NoLocals
  /\ times = ZeroTimes
  /\ prevTimes = ZeroTimes
  /\ op = NoOp
  /\ cal = NoDay
  /\ AppNotStarted
  /\ PageIdle

\* calculator.formatTime(decimalTime)
FormatTime ==
  /\ op.name = "none"
  /\ \E x \in TimeInputs :
       op' = [ name |-> "formatTime", arg |-> x, text |-> formatTime(x),
               value |-> 0 ]
  /\ UNCHANGED << engineVars, calVars, appVars, pageVars >>

\* convertTimeToDecimal(timeStr) of the string formatTime returned.
ConvertTimeToDecimal ==
  /\ op.name = "formatTime"
  /\ op' = [ op EXCEPT !.name = "convertTimeToDecimal",
                       !.value = convertTimeToDecimal(op.text) ]
  /\ UNCHANGED << engineVars, calVars, appVars, pageVars >>

\* calculator.formatCountdown(hours)
FormatCountdown ==
  /\ op.name = "none"
  /\ \E h \in CountdownInputs :
       op' = [ name |-> "formatCountdown", arg |-> h, text |-> formatCountdown(h),
               value |-> 0 ]
  /\ UNCHANGED << engineVars, calVars, appVars, pageVars >>

\* The controller's formatCountdown(hours)
AppFormatCountdown ==
  /\ op.name = "none"
  /\ \E h \in CountdownInputs :
       op' = [ name |-> "AdhanApp.formatCountdown", arg |-> h,
               text |-> AdhanApp_formatCountdown(h), value |-> 0 ]
  /\ UNCHANGED << engineVars, calVars, appVars, pageVars >>

NextFmt ==
  \/ FormatTime
  \/ ConvertTimeToDecimal
  \/ FormatCountdown
  \/ AppFormatCountdown
  \/ calculatePrayerTimes
  \/ Tick

SpecFmt == InitFmt /\ [][NextFmt]_vars

\* getJulianDate on consecutive days.
InitCal ==
  /\ methodParams = MethodTable
  /\ now = StartHour
  /\ ticks = 0
  /\ dateParse = "invalid"
  /\ args \in FmtArgs /\ args.method = "Makkah"
  /\ calls = 0
  /\ outcome = "none"
  /\ locals = NoLocals
  /\ times = ZeroTimes
  /\ prevTimes = ZeroTimes
  /\ op = NoOp
  /\ \E d \in StartDates : cal = [ NoDay EXCEPT !.date = d ]
  /\ AppNotStarted
  /\ PageIdle

\* calculator.getJulianDate(date)
JulianDateCall ==
  /\ ~cal.computed
  /\ cal' = [ cal EXCEPT !.jd = getJulianDate(cal.date), !.computed = TRUE ]
  /\ UNCHANGED << engineVars, fmtVars, appVars, pageVars >>

\* The next call is made with the date of the following day.
NextDay ==
  /\ cal.computed
  /\ cal.days < MaxDays
  /\ cal' = [ date |-> Tomorrow(cal.date), jd |-> 0, prevJd |-> cal.jd,
              computed |-> FALSE, days |-> cal.days + 1 ]
  /\ UNCHANGED << engineVars, fmtVars, appVars, pageVars >>

NextCal == JulianDateCall \/ NextDay

SpecCal == InitCal /\ [][NextCal]_vars

\* The controller's init(): loadSettings, getLocation, then
\* calculateAndDisplayTimes.
InitApp ==
  /\ methodParams = MethodTable
  /\ now = StartHour
  /\ ticks = 0
  /\ dateParse \in DateParsers
  /\ args \in FmtArgs /\ args.method = "Makkah"
  /\ calls = 0
  /\ outcome = "none"
  /\ locals = NoLocals
  /\ times = ZeroTimes
  /\ prevTimes = ZeroTimes
  /\ op = NoOp
  /\ cal = NoDay
  /\ pc = "constructed"
  /\ currentLocation = NoLocation
  /\ settings \in SavedSettings
  /\ \E a \in BOOLEAN, n \in 0..MaxRetries :
       /\ locRun = [ NoLocRun EXCEPT !.available = a, !.maxRetries = n ]
       /\ apiRun = [ NoApiRun EXCEPT !.maxRetries = n ]
  /\ display = NoDisplay
  /\ PageIdle

\* getLocation, lines 75-83, called by init() (line 34) or by the save
\* handler (line 512): without navigator.geolocation the default location is
\* set and the function returns; otherwise retries starts at 0, and a loop
\* that is not entered returns false at line 127.
GetLocation ==
  /\ pc \in { "constructed", "saved" }
  /\ IF ~locRun.available
     THEN /\ currentLocation' = DefaultLocation
          /\ pc' = "located"
          /\ UNCHANGED locRun
     ELSE /\ UNCHANGED currentLocation
          /\ locRun' = [ locRun EXCEPT !.retries = 0, !.attempts = << >> ]
          /\ pc' = IF locRun'.retries <= locRun.maxRetries THEN "position" ELSE "located"
  /\ UNCHANGED << settings, apiRun, display >>
  /\ UNCHANGED << engineVars, fmtVars, calVars, pageVars >>

\* Lines 85-91 and 112-119: getCurrentPosition calls its error callback.
PositionFails ==
  /\ pc = "position"
  /\ LET retries == locRun.retries + 1
     IN  /\ locRun' = [ locRun EXCEPT !.retries = retries,
                                      !.attempts = Append(@, "failed") ]
         /\ IF RetriesExhausted(retries, locRun.maxRetries)
            THEN currentLocation' = DefaultLocation /\ pc' = "located"
            ELSE /\ UNCHANGED currentLocation
                 \* after the wait of line 119, the loop test of line 83
                 /\ pc' = IF retries <= locRun.maxRetries THEN "position"
                          ELSE "located"
  /\ UNCHANGED << settings, apiRun, display >>
  /\ UNCHANGED << engineVars, fmtVars, calVars, pageVars >>

\* Lines 85-96: getCurrentPosition delivers a position.
PositionSucceeds ==
  /\ pc = "position"
  /\ \E pos \in Positions :
       locRun' =
         [ locRun EXCEPT
             !.attempts = Append(@, "position"),
             !.position =
               [ latitude |-> pos.latitude, longitude |-> pos.longitude,
                 timezone |-> IF pos.timezone = "" THEN "Asia/Riyadh"
                              ELSE pos.timezone,
                 city |-> "Your Location" ] ]
  /\ pc' = "geocode"
  /\ UNCHANGED << currentLocation, settings, apiRun, display >>
  /\ UNCHANGED << engineVars, fmtVars, calVars, pageVars >>

\* Lines 97-111: the reverse geocoding answers or fails, and the position
\* becomes the current location.
ReverseGeocode ==
  /\ pc = "geocode"
  /\ \E city \in Cities :
       currentLocation' = [ locRun.position EXCEPT !.city = city ]
  /\ pc' = "located"
  /\ UNCHANGED << settings, locRun, apiRun, display >>
  /\ UNCHANGED << engineVars, fmtVars, calVars, pageVars >>

\* calculateAndDisplayTimes, lines 142-149, and getAccuratePrayerTimes,
\* lines 197-200.
CalculateAndDisplayTimes ==
  /\ pc = "located"
  /\ IF currentLocation = NoLocation
     THEN /\ display' = [ shown |-> "error", text |-> [ p \in Prayers |-> ErrorText ] ]
          /\ pc' = "shown"
     ELSE /\ UNCHANGED display
          /\ pc' = "fetch"
  /\ UNCHANGED << currentLocation, settings, locRun, apiRun >>
  /\ UNCHANGED << engineVars, fmtVars, calVars, pageVars >>

\* Lines 202-216: the request of one attempt settles.  A usable response
\* is validated, returned and displayed (lines 155-167; the test of line 178
\* never holds, convertTimeToDecimal(...) || 0 being a number).  Otherwise
\* the attempt has failed; after the last one getAccuratePrayerTimes returns
\* null and calculateAndDisplayTimes runs calculateLocalPrayerTimes (lines
\* 150-152, 302-325).
FetchSettles ==
  /\ pc = "fetch"
  /\ \E response \in FetchOutcomes :
       IF Usable(response)
       THEN /\ CalculatorCalled(Cardinality(Replaced(response.timings)),
                                LocalArgs(currentLocation, settings))
            /\ apiRun' =
                 [ apiRun EXCEPT
                     !.attempts = Append(@, response.kind),
                     !.timings = response.timings,
                     !.validated = validateAndAdjustTimes(response.timings, times'),
                     !.result = "timings" ]
            /\ display' = [ shown |-> "remote",
                            text |-> RemoteDisplay(apiRun'.validated) ]
            \* line 182
            /\ prayerView' = updateCurrentAndNextPrayer(apiTimes(apiRun'.validated),
                                                        LocalTimeOfDay)
            /\ pc' = "shown"
       ELSE LET retries == apiRun.retries + 1
                \* lines 214 and 200, 218
                last == \/ RetriesExhausted(retries, apiRun.maxRetries)
                        \/ ~(retries <= apiRun.maxRetries)
            IN  /\ apiRun' = [ apiRun EXCEPT !.retries = retries,
                                             !.attempts = Append(@, response.kind),
                                             !.result = IF last THEN "null" ELSE @ ]
                /\ IF last
                   THEN /\ CalculatorCalled(1, LocalArgs(currentLocation, settings))
                        /\ display' = [ shown |-> "local",
                                        text |-> LocalDisplay(times') ]
                        \* line 324
                        /\ prayerView' = updateCurrentAndNextPrayer(times', LocalTimeOfDay)
                        /\ pc' = "shown"
                   ELSE /\ UNCHANGED << engineVars, display, prayerView >>
                        /\ pc' = "fetch"
  /\ UNCHANGED << currentLocation, settings, locRun >>
  /\ UNCHANGED << fmtVars, calVars, hijri, qiblaVars, saveVars >>

NextApp ==
  \/ GetLocation
  \/ PositionFails
  \/ PositionSucceeds
  \/ ReverseGeocode
  \/ CalculateAndDisplayTimes
  \/ FetchSettles

SpecApp == InitApp /\ [][NextApp]_vars

\* updateCurrentAndNextPrayer on six times and a time of day: the times are
\* any six values of the day, or the ones the calculator returns for the
\* default location.
InitPrayer ==
  /\ methodParams = MethodTable
  /\ now = StartHour
  /\ ticks = 0
  /\ dateParse = "timeToday"
  /\ args \in FmtArgs /\ args.method = "Makkah"
  /\ calls = 0
  /\ outcome = "none"
  /\ locals = NoLocals
  /\ times = ZeroTimes
  /\ prevTimes = ZeroTimes
  /\ op = NoOp
  /\ cal = NoDay
  /\ AppNotStarted
  /\ \E t \in [ Prayers -> PrayerHours ] \cup { PrayerTimesOf(args) },
        c \in CurrentTimes :
       prayerView = [ NoPrayerView EXCEPT !.times = t, !.currentTime = c ]
  /\ hijri = NoHijri
  /\ QiblaIdle
  /\ SaveIdle

\* updateCurrentAndNextPrayer(times)
UpdateCurrentAndNextPrayer ==
  /\ ~prayerView.updated
  /\ prayerView' = updateCurrentAndNextPrayer(prayerView.times, prayerView.currentTime)
  /\ UNCHANGED << engineVars, fmtVars, calVars, appVars, hijri, qiblaVars, saveVars >>

NextPrayer == UpdateCurrentAndNextPrayer

SpecPrayer == InitPrayer /\ [][NextPrayer]_vars


\* calculateLocalHijriDate on consecutive days.
InitHijri ==
  /\ methodParams = MethodTable
  /\ now = StartHour
  /\ ticks = 0
  /\ dateParse = "invalid"
  /\ args \in FmtArgs /\ args.method = "Makkah"
  /\ calls = 0
  /\ outcome = "none"
  /\ locals = NoLocals
  /\ times = ZeroTimes
  /\ prevTimes = ZeroTimes
  /\ op = NoOp
  /\ cal = NoDay
  /\ AppNotStarted
  /\ prayerView = NoPrayerView
  /\ \E d \in HijriStartDates : hijri = [ NoHijri EXCEPT !.date = d ]
  /\ QiblaIdle
  /\ SaveIdle

\* calculateLocalHijriDate(date)
CalculateLocalHijriDate ==
  /\ ~hijri.computed
  /\ hijri' = [ hijri EXCEPT !.result = calculateLocalHijriDate(hijri.date),
                             !.computed = TRUE ]
  /\ UNCHANGED << engineVars, fmtVars, calVars, appVars, prayerView, qiblaVars, saveVars >>

\* The next update is made on the following day.
NextHijriDay ==
  /\ hijri.computed
  /\ hijri.date.kind = "date"
  /\ hijri.days < MaxDays
  /\ hijri' = [ date |-> Tomorrow(hijri.date), result |-> HijriUnavailable,
                computed |-> FALSE, days |-> hijri.days + 1 ]
  /\ UNCHANGED << engineVars, fmtVars, calVars, appVars, prayerView, qiblaVars, saveVars >>

NextHijri == CalculateLocalHijriDate \/ NextHijriDay

SpecHijri == InitHijri /\ [][NextHijri]_vars

\* The Qibla finder after init(): the location is the default one or a
\* position of the device, and calculateQiblaDirection has run.
InitQibla ==
  /\ methodParams = MethodTable
  /\ now = StartHour
  /\ ticks = 0
  /\ dateParse = "invalid"
  /\ args \in FmtArgs /\ args.method = "Makkah"
  /\ calls = 0
  /\ outcome = "none"
  /\ locals = NoLocals
  /\ times = ZeroTimes
  /\ prevTimes = ZeroTimes
  /\ op = NoOp
  /\ cal = NoDay
  /\ pc = "shown"
  /\ \E location \in { DefaultLocation }
           \cup { [ latitude |-> pos.latitude, longitude |-> pos.longitude,
                    timezone |-> "Asia/Riyadh", city |-> "Your Location" ] :
                  pos \in Positions } :
       /\ currentLocation = location
       /\ qiblaDirection = calculateQiblaDirection(location)
  /\ settings = [ method |-> "Karachi", madhab |-> "Hanafi" ]
  /\ locRun = NoLocRun
  /\ apiRun = NoApiRun
  /\ display = NoDisplay
  /\ prayerView = NoPrayerView
  /\ hijri = NoHijri
  /\ isQiblaViewActive = FALSE
  /\ touchStartX = 0
  /\ isVibrating = FALSE
  /\ dom = [ PageLoaded EXCEPT !.directionText = "Qibla" ]
  /\ \E f \in BOOLEAN : window = [ WindowLoaded EXCEPT !.requestPermission = f ]
  /\ deactivated = FALSE
  /\ lastEvent = NoEvent
  /\ SaveIdle

\* The other variables of a step of the Qibla finder.
QiblaFrame ==
  UNCHANGED << engineVars, fmtVars, calVars, appVars, prayerView, hijri, saveVars >>

QiblaBtnClick ==
  activateQiblaFinder /\ lastEvent' = Event("qiblaBtn", 0) /\ QiblaFrame

BackBtnClick ==
  deactivateQiblaFinder /\ lastEvent' = Event("backBtn", 0) /\ QiblaFrame

\* The click on #permission-btn (line 516), once lines 568 or 571 have
\* displayed the button (the style sheet decides whether it shows before).
PermissionBtnClick ==
  /\ dom.permissionBtn = "block"
  /\ CanRequest
  /\ LET after == requestOrientationPermission(dom, window)
     IN  dom' = after.dom /\ window' = after.window
  /\ UNCHANGED << isQiblaViewActive, touchStartX, isVibrating, qiblaDirection,
                  deactivated >>
  /\ lastEvent' = Event("permissionBtn", 0)
  /\ QiblaFrame

\* Lines 563-572: a permission request settles.
PermissionSettles ==
  /\ window.pending > 0
  /\ \E permission \in { "granted", "denied", "error" } :
       IF permission = "granted"
       THEN /\ window' = [ window EXCEPT !.pending = @ - 1, !.listener = TRUE ]
            /\ dom' = [ dom EXCEPT !.permissionBtn = "none" ]
       ELSE /\ window' = [ window EXCEPT !.pending = @ - 1 ]
            /\ dom' = [ dom EXCEPT !.permissionBtn = "block" ]
  /\ UNCHANGED << isQiblaViewActive, touchStartX, isVibrating, qiblaDirection,
                  deactivated >>
  /\ lastEvent' = Event("permission", 0)
  /\ QiblaFrame

\* handleTouchStart(event)
TouchStart ==
  /\ \E x \in TouchXs : touchStartX' = x
  /\ UNCHANGED << isQiblaViewActive, isVibrating, qiblaDirection, dom, window,
                  deactivated >>
  /\ lastEvent' = Event("touchstart", 0)
  /\ QiblaFrame

\* handleTouchEnd(event) for a touch ending at touchEndX.
handleTouchEnd(touchEndX) ==
  LET swipeDistance == touchStartX - touchEndX
  IN  /\ IF ~IsSwipe(swipeDistance) THEN UNCHANGED qiblaState
         ELSE IF swipeDistance > 0 /\ ~isQiblaViewActive THEN activateQiblaFinder
         ELSE IF swipeDistance < 0 /\ isQiblaViewActive THEN deactivateQiblaFinder
         ELSE UNCHANGED qiblaState
      /\ lastEvent' = Event("touchend", swipeDistance)

TouchEnd == (\E touchEndX \in TouchXs : handleTouchEnd(touchEndX)) /\ QiblaFrame

\* handleOrientation(event), the elements being on the page.
handleOrientation(event) ==
  IF ~event.hasAlpha /\ ~event.hasHeading
  THEN LET after == showCompassError(dom, window)
       IN  /\ dom' = after.dom /\ window' = after.window
           /\ UNCHANGED << isQiblaViewActive, touchStartX, isVibrating,
                           qiblaDirection, deactivated >>
  ELSE IF ~isQiblaViewActive THEN UNCHANGED qiblaState
  ELSE LET heading  == IF event.hasHeading /\ event.webkitCompassHeading # 0
                       THEN event.webkitCompassHeading
                       ELSE Deg(360) - event.alpha
           rotation == qiblaDirection - heading
           turn     == Abs(JsMod(rotation, Deg(360)))
           isAligned == turn < Deg(2) \/ turn > Deg(358)
       IN  /\ dom' = [ dom EXCEPT !.pointerTransform = << rotation >>,
                                  !.messageVisible = isAligned,
                                  !.dialAligned = isAligned ]
           /\ isVibrating' = isAligned
           /\ UNCHANGED << isQiblaViewActive, touchStartX, qiblaDirection, window,
                           deactivated >>

\* The window delivers a deviceorientation event to the registered listener.
DeviceOrientation ==
  /\ window.listener
  /\ \E event \in OrientationEvents : handleOrientation(event)
  /\ lastEvent' = Event("deviceorientation", 0)
  /\ QiblaFrame

NextQibla ==
  \/ QiblaBtnClick
  \/ BackBtnClick
  \/ PermissionBtnClick
  \/ PermissionSettles
  \/ TouchStart
  \/ TouchEnd
  \/ DeviceOrientation

SpecQibla == InitQibla /\ [][NextQibla]_vars

\* The page after init() has shown the service's times for the location and
\* the settings, on a device with a position or without geolocation; the
\* 60 s timer is running (line 475).
InitSave ==
  /\ methodParams = MethodTable
  /\ now = StartHour
  /\ ticks = 0
  /\ dateParse = "timeToday"
  /\ args \in FmtArgs /\ args.method = "Makkah"
  /\ calls = 0
  /\ outcome = "none"
  /\ locals = NoLocals
  /\ times = ZeroTimes
  /\ prevTimes = ZeroTimes
  /\ op = NoOp
  /\ cal = NoDay
  /\ pc = "shown"
  /\ \E location \in { DefaultLocation }
           \cup { [ latitude |-> pos.latitude, longitude |-> pos.longitude,
                    timezone |-> IF pos.timezone = "" THEN "Asia/Riyadh"
                                 ELSE pos.timezone,
                    city |-> "Your Location" ] : pos \in Positions } :
       /\ currentLocation = location
       /\ locRun = [ NoLocRun EXCEPT !.available = (location # DefaultLocation),
                                     !.maxRetries = DefaultRetries ]
       /\ qiblaDirection = calculateQiblaDirection(location)
  /\ settings \in SavedSettings
  /\ apiRun = NoApiRun
  /\ LET timings == ServiceTimings(RequestFor(currentLocation, settings))
     IN  /\ display = [ shown |-> "remote", text |-> RemoteDisplay(timings) ]
         /\ prayerView = updateCurrentAndNextPrayer(apiTimes(timings), LocalTimeOfDay)
  /\ hijri = NoHijri
  /\ isQiblaViewActive = FALSE
  /\ touchStartX = 0
  /\ isVibrating = FALSE
  /\ dom = [ PageLoaded EXCEPT !.directionText = "Qibla" ]
  /\ window = WindowLoaded
  /\ deactivated = FALSE
  /\ lastEvent = NoEvent
  /\ runs = NoRuns
  /\ modal = NoModal

\* The variables no step of the save handler or of a refresh changes.
SaveFrame ==
  UNCHANGED << fmtVars, calVars, apiRun, hijri, isQiblaViewActive, touchStartX,
               isVibrating, window, deactivated, lastEvent >>

\* The click on #saveBtn (line 509) and saveSettingsFromModal up to its
\* first await, lines 653-659: the method and the school of the dialog are
\* taken, and a city that is typed and is not the current one is searched.
SaveBtnClick ==
  /\ pc \in { "shown", "handled" }
  /\ modal.saves < MaxSaves
  /\ \E s \in SavedSettings,
        input \in { "", CityFound.city, currentLocation.city } :
       /\ settings' = s
       /\ modal' = [ saves |-> modal.saves + 1, locationInput |-> input,
                     found |-> NoLocation ]
       /\ pc' = IF input # "" /\ input # currentLocation.city THEN "search"
                ELSE "saved"
  /\ UNCHANGED << currentLocation, locRun, display, prayerView, qiblaDirection,
                  dom, runs >>
  /\ UNCHANGED engineVars
  /\ SaveFrame

\* Lines 659-672: the search answers with the city, with nothing, or fails;
\* the city found becomes the current location, in the host's time zone.
CitySearchSettles ==
  /\ pc = "search"
  /\ \E answer \in { "found", "not found", "error" }, pos \in Positions :
       IF answer = "found"
       THEN LET location ==
                  [ latitude |-> CityFound.latitude,
                    longitude |-> CityFound.longitude,
                    timezone |-> IF pos.timezone = "" THEN "Asia/Riyadh"
                                 ELSE pos.timezone,
                    city |-> modal.locationInput ]
            IN  /\ currentLocation' = location
                /\ modal' = [ modal EXCEPT !.found = location ]
       ELSE UNCHANGED << currentLocation, modal >>
  /\ pc' = "saved"
  /\ UNCHANGED << settings, locRun, display, prayerView, qiblaDirection, dom, runs >>
  /\ UNCHANGED engineVars
  /\ SaveFrame

\* calculateAndDisplayTimes up to the fetch of getAccuratePrayerTimes, lines
\* 143-205 (the location is set): the invocation r is on its way.
StartRun(r) ==
  /\ currentLocation # NoLocation
  /\ runs' = [ runs EXCEPT
                 ![r] = [ pc |-> "fetch", retries |-> 0,
                          request |-> RequestFor(currentLocation, settings),
                          started |-> @.started + 1 ] ]

\* Line 513: the save handler, getLocation having returned, refreshes.
HandlerRefresh ==
  /\ pc = "located"
  /\ StartRun("handler")
  /\ pc' = "refreshing"
  /\ UNCHANGED << currentLocation, settings, locRun, display, prayerView,
                  qiblaDirection, dom, modal >>
  /\ UNCHANGED engineVars
  /\ SaveFrame

\* Line 475: the timer fires (an invocation ends within the 60 s: three
\* requests of at most 10 s, two waits of 1 s).
TimerFires ==
  /\ runs.timer.pc # "fetch"
  /\ runs.timer.started < MaxTimerRuns
  /\ StartRun("timer")
  /\ UNCHANGED << pc, currentLocation, settings, locRun, display, prayerView,
                  qiblaDirection, dom, modal >>
  /\ UNCHANGED engineVars
  /\ SaveFrame

\* Lines 205-216 and 150-183 for the invocation r: its request settles.  The
\* service's timings for the request are validated, displayed and given to
\* updateCurrentAndNextPrayer; a failed attempt is followed by a request
\* built anew (line 204), the last one by calculateLocalPrayerTimes for the
\* location and the settings of that moment.
RunSettles(r) ==
  /\ runs[r].pc = "fetch"
  /\ \E ok \in BOOLEAN :
       IF ok
       THEN LET timings == ServiceTimings(runs[r].request)
            IN  /\ CalculatorCalled(Cardinality(Replaced(timings)),
                                    LocalArgs(currentLocation, settings))
                /\ display' =
                     [ shown |-> "remote",
                       text |-> RemoteDisplay(validateAndAdjustTimes(timings, times')) ]
                /\ prayerView' =
                     updateCurrentAndNextPrayer(
                       apiTimes(validateAndAdjustTimes(timings, times')), LocalTimeOfDay)
                /\ runs' = [ runs EXCEPT ![r].pc = "done" ]
       ELSE LET retries == runs[r].retries + 1
            IN  IF RetriesExhausted(retries, DefaultRetries)
                THEN /\ CalculatorCalled(1, LocalArgs(currentLocation, settings))
                     /\ display' = [ shown |-> "local", text |-> LocalDisplay(times') ]
                     /\ prayerView' = updateCurrentAndNextPrayer(times', LocalTimeOfDay)
                     /\ runs' = [ runs EXCEPT ![r].retries = retries, ![r].pc = "done" ]
                ELSE /\ runs' = [ runs EXCEPT
                                    ![r].retries = retries,
                                    ![r].request = RequestFor(currentLocation, settings) ]
                     /\ UNCHANGED << engineVars, display, prayerView >>
  /\ UNCHANGED << pc, currentLocation, settings, locRun, qiblaDirection, dom, modal >>
  /\ SaveFrame

RefreshSettles == \E r \in { "handler", "timer" } : RunSettles(r)

\* Line 514: the handler's refresh has returned; calculateQiblaDirection.
FinishSave ==
  /\ pc = "refreshing"
  /\ runs.handler.pc = "done"
  /\ qiblaDirection' = calculateQiblaDirection(currentLocation)
  /\ dom' = [ dom EXCEPT !.directionText = "Qibla" ]
  /\ pc' = "handled"
  /\ UNCHANGED << currentLocation, settings, locRun, display, prayerView, runs, modal >>
  /\ UNCHANGED engineVars
  /\ SaveFrame

NextSave ==
  \/ SaveBtnClick
  \/ CitySearchSettles
  \/ GetLocation
  \/ PositionFails
  \/ PositionSucceeds
  \/ ReverseGeocode
  \/ HandlerRefresh
  \/ TimerFires
  \/ RefreshSettles
  \/ FinishSave

SpecSave == InitSave /\ [][NextSave]_vars

(***************************************************************************)
(* Properties                                                              *)
(***************************************************************************)
Called == calls > 0
Returned == outcome = "returned"
ValidDate == args.date.kind = "date"
InRange(t) == ~IsNaN(t) /\ 0 <= t /\ t < Hours(24)
\* The distance of two times of day around the 24-hour clock.
ClockDistance(a, b) ==
  LET d == Abs(a - b) IN IF d > Hours(12) THEN Hours(24) - d ELSE d
EquinoxSeason == ValidDate /\ args.date.month \in { 3, 9 }
\* A valid date and numeric coordinates.
ValidInput == ValidDate /\ ~IsNaN(args.latitude) /\ ~IsNaN(args.longitude)
\* No value of the last call was changed by the normalization of line 34.
Unwrapped == \A p \in Prayers : times[p] = locals.raw[p]

\* C1: every value of every mapping a call has returned, on the normal and
\* on the caught path, is a number in [0, 24).
C1_AllInRange == Called => \A p \in Prayers : InRange(times[p])

\* C2: a call never raises; when a step of the try block throws, the call
\* takes the catch path and returns the all-zero mapping.
C2_NeverRaises ==
  Called =>
    /\ outcome \in { "returned", "caught" }
    /\ args.date.kind = "null" => outcome = "caught" /\ times = ZeroTimes

C2_Witness == Called /\ args.date.kind = "null" /\ outcome = "caught"

\* C3: a call with an Invalid Date, a NaN latitude or a NaN longitude returns
\* the all-zero mapping.
C3_InvalidInputGivesZeros ==
  Called /\ (args.date.kind = "invalid" \/ IsNaN(args.latitude)
               \/ IsNaN(args.longitude))
    => times = ZeroTimes

\* C4: a method outside the table is computed with both angles 18, a madhab
\* other than Hanafi with factor 1 (Hanafi with 2), and neither makes the
\* call raise or return the all-zero failure mapping.
C4_Defaults ==
  /\ Called /\ args.date.kind # "null" => Returned
  /\ Returned =>
       /\ args.method \notin KnownMethods =>
            locals.fajrAngle = Deg(18) /\ locals.ishaAngle = Deg(18)
       /\ locals.asrFactor = (IF args.madhab = "Hanafi" THEN 2 ELSE 1)
       /\ times # ZeroTimes

C4_Witness ==
  /\ Returned /\ args.method = "Foo" /\ args.madhab = "Shafi"
  /\ locals.fajrAngle = Deg(18) /\ locals.asrFactor = 1

\* C5: for a valid date, a finite longitude and a latitude in (-66, 66) the
\* returned dhuhr is the value calculateSolarTime gave, normalized, and
\* nothing else.
C5_DhuhrIsSolarTime ==
  Returned /\ ValidDate /\ ~IsNaN(args.longitude) /\ ~IsNaN(args.latitude)
    /\ Abs(args.latitude) < Deg(66)
    => times.dhuhr = Normalize(locals.localTime)

C5_Witness ==
  /\ Returned /\ ValidDate /\ args.latitude = Deg(45)
  /\ ~IsNaN(locals.localTime)
  /\ locals.localTime > Hours(24)
  /\ times.dhuhr = locals.localTime - Hours(24)

\* C6: the solar time is 12 + EqT - longitude / 15 + the zone's UTC offset in
\* hours, the offset added at full value.
C6_FullTimezoneOffset ==
  Returned /\ ValidDate /\ ~IsNaN(args.longitude)
    /\ args.timezone \in DOMAIN ZoneOffset
    => locals.localTime =
         Hours(12) + EquationOfTime(locals.julianDate) - Div(args.longitude, 15)
           + Hours(ZoneOffset[args.timezone])

\* C7: a second call with the same (valid) arguments returns the same
\* mapping as the first, whatever the wall clock did in between.
C7_Deterministic == calls >= 2 /\ ValidInput => times = prevTimes

\* C8: for a method of the table, a latitude within 60 degrees of the
\* equator and a date of the equinox season, the six times are strictly
\* increasing (stated for numeric results that the normalization left as
\* they were).
C8_Ordered ==
  Returned /\ EquinoxSeason /\ args.method \in KnownMethods
    /\ ~IsNaN(args.latitude) /\ Abs(args.latitude) <= Deg(60)
    /\ ~IsNaN(locals.localTime) /\ Unwrapped
    => /\ times.fajr < times.sunrise
       /\ times.sunrise < times.dhuhr
       /\ times.dhuhr < times.asr
       /\ times.asr < times.maghrib
       /\ times.maghrib < times.isha

\* The polar cases of C9: 89 N in June with any method, 74 N in January with
\* method Karachi, the solar time being a number.
PolarCase ==
  /\ Returned /\ ValidDate /\ ~IsNaN(locals.localTime)
  /\ \/ args.latitude = Deg(89) /\ args.date.month = 6
     \/ args.latitude = Deg(74) /\ args.date.month = 1 /\ args.method = "Karachi"

\* C9: in the polar cases calculateFajr and calculateIsha both return at
\* their |cosAngle| > 1 line: solarTime - 1.5 and solarTime + 1.5.
C9_PolarFallback ==
  PolarCase =>
    /\ locals.fajrNoSolution /\ locals.ishaNoSolution
    /\ locals.raw.fajr = locals.localTime - 15000
    /\ locals.raw.isha = locals.localTime + 15000

C9_Witness ==
  /\ PolarCase /\ args.latitude = Deg(74) /\ locals.fajrNoSolution
  /\ locals.raw.isha = locals.localTime + 15000

\* C10 as claimed: with method Makkah the returned isha is within half an
\* hour of the returned maghrib.
C10_IshaNearMaghrib ==
  Returned /\ args.method = "Makkah" /\ ~IsNaN(times.isha)
    /\ ~IsNaN(times.maghrib)
    => ClockDistance(times.isha, times.maghrib) <= Hours(1) \div 2

\* C10 as amended: with method Makkah, a numeric solar time and a latitude of
\* at least one degree north or south, calculateIsha returns at its
\* |cosAngle| > 1 line, so isha is solarTime + 1.5 and maghrib solarTime + 6
\* (both normalized): isha lies 4.5 hours before maghrib.
C10_MakkahIshaFallback ==
  Returned /\ args.method = "Makkah" /\ ~IsNaN(locals.localTime)
    /\ ~IsNaN(args.latitude) /\ Abs(args.latitude) >= Deg(1)
    => /\ locals.ishaNoSolution
       /\ times.isha = Normalize(locals.localTime + 15000)
       /\ times.maghrib = Normalize(locals.localTime + Hours(6))
       /\ ClockDistance(times.isha, times.maghrib) = 45000

C10_Witness ==
  /\ Returned /\ args.method = "Makkah" /\ args.latitude = 214225
  /\ ~IsNaN(locals.localTime) /\ locals.ishaNoSolution
  /\ ClockDistance(times.isha, times.maghrib) = 45000


\* formatTime has been applied to op.arg and returned op.text.
Formatted == op.name = "formatTime"
\* convertTimeToDecimal has been applied to the string formatTime returned.
RoundTripped == op.name = "convertTimeToDecimal"

\* C11: formatTime returns 'Error' exactly for the inputs that are zero or
\* not finite (0, NaN, Infinity, -Infinity, undefined); every other input
\* gives a string other than the sentinel.
C11_SentinelForInvalid ==
  Formatted => (op.text = ErrorText <=> (op.arg = 0 \/ ~IsFinite(op.arg)))

\* C12: for every x in (0, 24), convertTimeToDecimal(formatTime(x)) lies in
\* the same hour as x and differs from x by less than 1/60 hour.
C12_RoundTrip ==
  RoundTripped /\ IsFinite(op.arg) /\ 0 < op.arg /\ op.arg < Hours(24)
    => /\ Abs(op.value - op.arg) * 60 < Hours(1)
       /\ op.value \div 10000 = op.arg \div 10000

C12_Witness ==
  /\ RoundTripped /\ op.arg = 5000
  /\ op.text = << "1", "2", ":", "3", "0", " ", "A", "M" >>
  /\ op.value = 5000

\* C13: for a non-negative h both formatCountdown versions return
\* 'H hours M minutes' with 60 * H + M = floor(60 * h) and 0 <= M <= 59.
C13_CountdownTruncates ==
  op.name \in { "formatCountdown", "AdhanApp.formatCountdown" } /\ op.arg >= 0
    => \E H \in 0..(MaxCountdownHours + 1), M \in 0..59 :
         /\ op.text = CountdownText(H, M)
         /\ 60 * H + M = (60 * op.arg) \div 10000

C13_Witness ==
  /\ op.name = "AdhanApp.formatCountdown" /\ op.arg = Hours(1) + 9999
  /\ op.text = CountdownText(1, 59)


\* The Julian Day Number as the formula of the claim gives it.
JDN(year, month, day) ==
  LET a == (14 - month) \div 12
      y == year + 4800 - a
      m == month + 12 * a - 3
  IN  day + ((153 * m + 2) \div 5) + 365 * y + (y \div 4) - (y \div 100)
        + (y \div 400) - 32045

\* C14: getJulianDate returns the integer of the formula for the UTC year,
\* month and day, and its values on two consecutive calendar days (across
\* month ends, year ends and leap days) differ by exactly 1.
C14_JulianDayNumber ==
  cal.computed =>
    /\ cal.jd = JDN(cal.date.year, cal.date.month, cal.date.day)
    /\ cal.days > 0 => cal.jd = cal.prevJd + 1

\* 2024-02-29 follows 2024-02-28 and is followed by 2024-03-01 = JDN 2460371.
C14_Witness ==
  /\ cal.computed /\ cal.date = UtcDate(2024, 3, 1) /\ cal.days = 3
  /\ cal.jd = 2460371 /\ cal.prevJd = 2460370


\* C15: whatever operations of the calculator have run (calculatePrayerTimes
\* with its solvers, formatTime, formatCountdown), methodParams is the table
\* the constructor built.
C15_MethodParamsUnchanged == methodParams = MethodTable

C15_Witness ==
  /\ calls >= 2 /\ Returned /\ args.method = "Foo"
  /\ op.name = "formatCountdown"
  /\ methodParams = MethodTable

\* The scenario of C16: Makkah at the summer solstice.
MeccaScenario ==
  args = [ date |-> UtcDate(2024, 6, 21), latitude |-> 214225,
           longitude |-> 398262, timezone |-> "Asia/Riyadh",
           method |-> "Makkah", madhab |-> "Shafi" ]

\* C16: in the scenario the returned dhuhr lies between 12.1 and 12.3 and asr
\* is computed with shadow factor 1.
C16_MeccaDhuhr ==
  Returned /\ MeccaScenario
    => /\ ~IsNaN(times.dhuhr)
       /\ 121000 <= times.dhuhr /\ times.dhuhr <= 123000
       /\ locals.asrFactor = 1


\* calculateFajr as C19 describes it: the declination, a number of degrees,
\* converted to radians like the latitude and the twilight angle.
FajrAllInRadians(solarTime, latitude, fajrAngle) ==
  LET num == -Sin(fajrAngle)
      den == Cos(latitude) * Cos(calculateDeclination(solarTime))
  IN  IF NoSolution(num, den) THEN solarTime - 15000
      ELSE solarTime - Div(ACos(CosAngle(num, den)), 15)

\* C19: the solvers convert every degree-valued quantity, the declination
\* included, to radians before the trigonometric call; so the fajr value is
\* (within a quarter of an hour, the resolution of the arithmetic here) the
\* one computed from cos(declination in degrees).
C19_DeclinationConverted ==
  Returned /\ ValidInput /\ ~IsNaN(locals.localTime)
    => Abs(locals.raw.fajr
           - FajrAllInRadians(locals.localTime, args.latitude, locals.fajrAngle))
         <= 2500


\* getLocation has completed.
Located == pc \in { "located", "fetch", "shown" }
\* An attempt of getLocation obtained a position.
GotPosition == \E i \in 1..Len(locRun.attempts) : locRun.attempts[i] = "position"

\* C17: getLocation makes at most maxRetries + 1 position requests and never
\* stops before it completes; when it has completed, currentLocation is not
\* null: it is the position of the first successful attempt (no attempt
\* follows it), or the default location Makkah when geolocation is
\* unavailable or every attempt failed.
C17_GetLocationBounded ==
  LET n == Len(locRun.attempts)
  IN  /\ n <= locRun.maxRetries + 1
      /\ \A i \in 1..n : locRun.attempts[i] = "position" => i = n
      /\ ~Located =>
           ENABLED (GetLocation \/ PositionFails \/ PositionSucceeds \/ ReverseGeocode)
      /\ Located =>
           /\ currentLocation # NoLocation
           /\ IF GotPosition
              THEN /\ currentLocation.latitude = locRun.position.latitude
                   /\ currentLocation.longitude = locRun.position.longitude
                   /\ currentLocation.timezone = locRun.position.timezone
              ELSE /\ currentLocation = DefaultLocation
                   /\ ~locRun.available \/ n = locRun.maxRetries + 1

C17_Witness ==
  /\ Located /\ locRun.maxRetries = 2
  /\ locRun.attempts = << "failed", "failed", "position" >>
  /\ currentLocation.latitude = -338688
  /\ currentLocation.timezone = "Pacific/Pago_Pago"

\* Every entry of the remote timings is kept by validateAndAdjustTimes: the
\* six are well-formed time strings in strictly increasing order.
RemoteValid(timings) ==
  \A i \in 1..6 : Kept(timings[PrayerOrder[i]], PrevTimeAfter(timings, i - 1))

\* The six texts are clock times in strictly increasing order.
DisplayIncreasing ==
  \A i \in 1..5 :
    /\ display.text[PrayerOrder[i]] # ErrorText
    /\ display.text[PrayerOrder[i + 1]] # ErrorText
    /\ convertTimeToDecimal(display.text[PrayerOrder[i]])
         < convertTimeToDecimal(display.text[PrayerOrder[i + 1]])

\* C18: when every attempt failed or the remote timings are not valid, the
\* six texts displayed are the ones of the local calculation; and a set
\* displayed from a remote response is strictly increasing.
C18_InvalidRemoteGivesLocal ==
  pc = "shown" /\ display.shown # "error" =>
    /\ apiRun.result = "null" \/ ~RemoteValid(apiRun.timings)
         => display.text = LocalDisplay(LocalTimes(currentLocation, settings))
    /\ display.shown = "remote" => DisplayIncreasing

\* The safety part of C20.
RequestsBounded ==
  LET n  == Len(apiRun.attempts)
      ok == { i \in 1..n : apiRun.attempts[i] = "200+timings" }
  IN  /\ n <= apiRun.maxRetries + 1
      /\ \A i \in ok : i = n
      /\ apiRun.result = "timings" <=> ok # { }
      /\ apiRun.result = "null" <=> (n = apiRun.maxRetries + 1 /\ ok = { })
      /\ apiRun.result = "null" =>
           /\ pc = "shown" /\ display.shown = "local"
           /\ display.text = LocalDisplay(LocalTimes(currentLocation, settings))
      /\ pc = "shown" <=> apiRun.result # "none"
      /\ pc = "shown" => display.shown \in { "remote", "local" }

\* A request that settles ends the refresh with times displayed or uses up
\* one of the retries.
RequestSettled ==
  pc = "fetch" =>
    \/ pc' = "shown" /\ display'.shown \in { "remote", "local" }
    \/ pc' = "fetch" /\ apiRun'.retries = apiRun.retries + 1
         /\ apiRun'.retries <= apiRun.maxRetries

\* C20: getAccuratePrayerTimes makes at most maxRetries + 1 requests; only a
\* response with code 200 and timings ends it with a result, and it is the
\* last request made; it returns null exactly when maxRetries + 1 requests
\* were made and none was such a response, and then the local times are
\* displayed; every request that settles ends the refresh or uses up a
\* retry, so a refresh ends with remote or local times displayed.
C20_BoundedRequests == []RequestsBounded /\ [][RequestSettled]_vars

C20_Witness ==
  /\ apiRun.maxRetries = 2 /\ apiRun.result = "null"
  /\ apiRun.attempts = << "network", "404+timings", "200" >>
  /\ display.shown = "local"

\* The prayer times of the view that are later than its current time.
LaterToday == { p \in Prayers : prayerView.times[p] > prayerView.currentTime }

\* C21: for six times in [0, 24) the remaining time reported is the time to
\* the soonest prayer time strictly later than now, or to Fajr of the next
\* day when none remains today, and it is greater than 0 and at most 24
\* hours.
C21_CountdownToSoonest ==
  prayerView.updated /\ (\A p \in Prayers : InRange(prayerView.times[p]))
    => /\ IF LaterToday = { }
          THEN prayerView.remaining =
                 prayerView.times.fajr + Hours(24) - prayerView.currentTime
          ELSE \E p \in LaterToday :
                 /\ \A q \in LaterToday : prayerView.times[p] <= prayerView.times[q]
                 /\ prayerView.remaining = prayerView.times[p] - prayerView.currentTime
       /\ 0 < prayerView.remaining
       /\ prayerView.remaining <= Hours(24)

\* The statement of C21 for six times in increasing order (it holds).
OrderedCountdownToSoonest ==
  (\A i \in 1..5 : prayerView.times[PrayerOrder[i]] <= prayerView.times[PrayerOrder[i + 1]])
    => C21_CountdownToSoonest

\* C28: whenever the result is a number, calculateSunrise returns exactly
\* solarTime - 6 and calculateMaghrib exactly solarTime + 6, whatever the
\* latitude and the date, and neither takes its |cosAngle| > 1 branch.
C28_SunriseMaghribSixHours ==
  Returned /\ ~IsNaN(locals.localTime) /\ ~IsNaN(args.latitude)
    => /\ locals.raw.sunrise = locals.localTime - Hours(6)
       /\ locals.raw.maghrib = locals.localTime + Hours(6)
       /\ ~NoSolution(-Sin(0), Divisor(locals.localTime, args.latitude))

C28_Witness ==
  /\ Returned /\ ValidDate /\ args.latitude = Deg(89) /\ args.date.month = 6
  /\ ~IsNaN(locals.localTime)
  /\ locals.raw.sunrise = locals.localTime - Hours(6)
  /\ locals.raw.maghrib = locals.localTime + Hours(6)

\* The date of the hijri view is on or after the Islamic epoch, 19 July 622.
OnOrAfterEpoch ==
  /\ hijri.date.kind = "date"
  /\ \/ hijri.date.year > 622
     \/ hijri.date.year = 622 /\ hijri.date.month > 7
     \/ hijri.date.year = 622 /\ hijri.date.month = 7 /\ hijri.date.day >= 19

\* C22: for a date on or after the epoch calculateLocalHijriDate returns a
\* date and not 'Hijri Date Unavailable': the year loop ends in its break with
\* a year of the 30-year cycle, the month loop ends in its break with one of
\* the twelve months, and the day is between 1 and the length (29 or 30) of
\* that month.
C22_HijriWellFormed ==
  hijri.computed /\ OnOrAfterEpoch
    => /\ hijri.result.kind = "date"
       /\ hijri.result.yearFound /\ hijri.result.yearInCycle \in 1..30
       /\ hijri.result.hijriYear >= 1
       /\ hijri.result.monthFound /\ hijri.result.monthIndex \in 0..11
       /\ hijri.result.monthDays \in { 29, 30 }
       /\ 1 <= hijri.result.hijriDay
       /\ hijri.result.hijriDay <= hijri.result.monthDays

\* 14 June 1961, the first day of a 30-year cycle, reached from the last day
\* of the cycle before: 1 Muharram 1381 after 29 Dhu al-Hijjah 1380.
C22_Witness ==
  /\ hijri.computed /\ hijri.date = UtcDate(1961, 6, 14) /\ hijri.days = 2
  /\ hijri.result.hijriDay = 1 /\ hijri.result.month = "Muharram"
  /\ hijri.result.hijriYear = 1381 /\ hijri.result.yearInCycle = 1

\* C25: from deactivateQiblaFinder until the next activateQiblaFinder,
\* handleOrientation is not registered as a deviceorientation listener.
C25_NoListenerWhileDeactivated == deactivated => ~window.listener

\* What C26 says a deviceorientation event leaves alone.
CompassView ==
  << dom.pointerTransform, dom.pointerDisplay, dom.messageVisible,
     dom.dialAligned, dom.directionText, isVibrating >>

\* C26: a deviceorientation event handled while isQiblaViewActive is false
\* changes nothing of the compass (pointer transform and visibility, message,
\* dial class, direction text) nor isVibrating, whatever the event carries.
C26_InactiveEventChangesNothing ==
  [][ DeviceOrientation /\ ~isQiblaViewActive => UNCHANGED CompassView ]_vars

\* The container's class 'qibla-active' is set exactly when the flag is.
ClassMatchesFlag == dom.qiblaActive <=> isQiblaViewActive

\* A touch shorter than 50 px changes neither the flag nor the class; a left
\* swipe changes the flag only from false to true, a right swipe only from
\* true to false.
TouchRule ==
  lastEvent'.type = "touchend" =>
    LET swipeDistance == lastEvent'.swipeDistance
    IN  /\ Abs(swipeDistance) < 50 =>
             /\ isQiblaViewActive' = isQiblaViewActive
             /\ dom'.qiblaActive = dom.qiblaActive
        /\ swipeDistance > 0 /\ isQiblaViewActive' # isQiblaViewActive =>
             ~isQiblaViewActive /\ isQiblaViewActive'
        /\ swipeDistance < 0 /\ isQiblaViewActive' # isQiblaViewActive =>
             isQiblaViewActive /\ ~isQiblaViewActive'

\* C27: after any sequence of button clicks and swipes the swipe container has
\* the class 'qibla-active' exactly when isQiblaViewActive is true, and a
\* touch acts as TouchRule says.
C27_ClassFollowsFlag == []ClassMatchesFlag /\ [][TouchRule]_vars

\* A left swipe of 120 px has activated the view after a back-button click or
\* right swipe had deactivated it.
C27_Witness ==
  /\ lastEvent = Event("touchend", 120)
  /\ isQiblaViewActive /\ dom.qiblaActive /\ ~deactivated
  /\ touchStartX = 120


\* No invocation of calculateAndDisplayTimes awaits the network, one has
\* completed, and no save handler is on its way.
AllCompleted ==
  /\ pc \in { "shown", "handled" }
  /\ runs.handler.pc # "fetch" /\ runs.timer.pc # "fetch"
  /\ runs.handler.pc = "done" \/ runs.timer.pc = "done"

\* The six elements show the times of the current location and settings:
\* the service's, or the ones calculated locally.
DisplayIsCurrent ==
  \/ /\ display.shown = "remote"
     /\ display.text = RemoteDisplay(ServiceTimings(RequestFor(currentLocation, settings)))
  \/ /\ display.shown = "local"
     /\ display.text = LocalDisplay(LocalTimes(currentLocation, settings))

\* C23: once all overlapping invocations of calculateAndDisplayTimes have
\* completed, the prayer times shown are the ones for the settings and the
\* location current at that moment; an older invocation finishing last does
\* not overwrite them with times for superseded settings.
C23_DisplayIsCurrentAfterRefreshes == AllCompleted => DisplayIsCurrent

\* C24: once the save handler has finished after its search found the city
\* typed, currentLocation holds that city's latitude and longitude, and the
\* Qibla direction is the one computed from them.
C24_SavedCityIsKept ==
  pc = "handled" /\ modal.found # NoLocation
    => /\ currentLocation.latitude = modal.found.latitude
       /\ currentLocation.longitude = modal.found.longitude
       /\ qiblaDirection = calculateQiblaDirection(modal.found)

=============================================================================
